---- MODULE Spec2Model ----
(***************************************************************************)
(* Model of the inbox create_task tool of the tentacle app: provider       *)
(* resolution, task creation and conversation linking, the bounded wait    *)
(* (_wait_for_terminal_status) and the formatting of the response; and of  *)
(* the get_task_status tool: provider resolution from the context, the     *)
(* single-task mode with its ownership check, and the listing mode.        *)
(*                                                                         *)
(* Time is counted in ticks of half the poller's minimum sleep (0.005 s),  *)
(* so that a remaining time smaller than the minimum sleep is a state of   *)
(* the model.  Python's None is the empty tuple <<>> and a present value x *)
(* is <<x>>.                                                               *)
(***************************************************************************)
EXTENDS Integers, Sequences, FiniteSets, TLC

VARIABLES
    arguments,          \* the caller's arguments object
    context,            \* the caller's context map
    settings,           \* src.core.config.settings (read-only configuration)
    task_use_cases,     \* module global _task_use_cases
    checkpoint_use_cases, \* module global _checkpoint_use_cases
    pc,                 \* position of execute()
    wait_timeout_seconds, \* execute(): resolved wait timeout
    constraints,        \* execute(): the constraints dict handed to create_task
    backend,            \* calls the backend has seen
    now,                \* monotonic clock, in ticks
    deadline,           \* _wait_for_terminal_status: deadline
    last_task,          \* _wait_for_terminal_status: last_task
    last_status,        \* _wait_for_terminal_status: last_status
    last_fetch,         \* history of the backend: the latest get_task outcome
    delivered,          \* history of the backend: latest snapshot get_task returned
    wait_result,        \* (observed_task, observed_status, timed_out) once returned
    pending,            \* what list_pending_for_task returned
    result,             \* the ToolResult of execute()
    status_arguments,   \* get_task_status: the caller's arguments object
    status_context,     \* get_task_status: the caller's context map
    status_globals,     \* get_task_status.py: module globals _task_use_cases and
                        \* _checkpoint_use_cases
    status_locals,      \* get_task_status: locals of execute()
    shapes,             \* get_task_status asked through both provider shapes:
                        \* the backend's content and the first answer
    waits,              \* the frames of concurrent _wait_for_terminal_status
                        \* calls
    callers             \* the calls of _get_task_use_cases() and
                        \* _get_checkpoint_use_cases() under way, and their history

\* the state of the create_task tool, pc, backend and result apart
create_vars == <<arguments, context, settings, task_use_cases, checkpoint_use_cases,
                 wait_timeout_seconds, constraints, now, deadline, last_task,
                 last_status, last_fetch, delivered, wait_result, pending>>

\* the state of the get_task_status tool, pc, backend and result apart
status_vars == <<status_arguments, status_context, status_globals, status_locals>>

vars == <<arguments, context, settings, task_use_cases, checkpoint_use_cases, pc,
          wait_timeout_seconds, constraints, backend, now, deadline, last_task,
          last_status, last_fetch, delivered, wait_result, pending, result,
          status_arguments, status_context, status_globals, status_locals,
          callers, shapes, waits>>

-----------------------------------------------------------------------------
(* Bounds of the model *)

\* largest wait timeout (seconds) the configuration and the arguments draw from
MaxTimeoutSetting == 1

\* cap on the get_task calls of one wait (no wait of the model reaches it)
MaxFetches == 16

-----------------------------------------------------------------------------
(* Units of time *)

\* asyncio.sleep floor of 0.01 s, in ticks
SleepFloor == 2

\* poll interval floor of 0.2 s, in ticks
PollFloor == 20 * SleepFloor

\* one second, in ticks
Second == 100 * SleepFloor

-----------------------------------------------------------------------------
(* Python values *)

None == <<>>
Some(x) == <<x>>

Max(a, b) == IF a >= b THEN a ELSE b
Min(a, b) == IF a <= b THEN a ELSE b

\* an Enum member (it has .value) and a plain value (it is its own value)
EnumMember(v) == [kind |-> "enum", value |-> Some(v)]
PlainValue(v) == [kind |-> "plain", value |-> Some(v)]
NoValue == [kind |-> "plain", value |-> None]

\* str.lower() on the strings the model draws from
LowerTable ==
    ("COMPLETED" :> "completed") @@ ("EXECUTING" :> "executing")
    @@ ("Failed" :> "failed") @@ ("DONE" :> "done") @@ ("Checkpoint" :> "checkpoint")

Lower(s) == IF s \in DOMAIN LowerTable THEN LowerTable[s] ELSE s

\* _status_value: getattr(status, "value", status), lower-cased, None -> "unknown"
StatusValue(status) ==
    LET raw == status.value
    IN  IF raw # None THEN Lower(raw[1]) ELSE "unknown"

-----------------------------------------------------------------------------
(* Task snapshots *)

Step(status) == [status |-> status]

\* own_pct: what task.get_progress_percentage() returns, in hundredths of a
\* percent, or None when the snapshot has no such method (or it raises)
Snapshot(status, steps, own_pct) ==
    [status |-> status, steps |-> steps, own_pct |-> own_pct]

TaskSnapshots ==
    { Snapshot(EnumMember("planning"), <<Step(EnumMember("pending"))>>, None),
      Snapshot(PlainValue("EXECUTING"),
               <<Step(EnumMember("done")), Step(EnumMember("running"))>>, Some(5000)),
      Snapshot(EnumMember("completed"),
               <<Step(EnumMember("done")), Step(EnumMember("done"))>>, None),
      Snapshot(PlainValue("COMPLETED"),
               <<Step(PlainValue("completed")), Step(PlainValue("DONE")),
                 Step(EnumMember("failed"))>>, None),
      Snapshot(EnumMember("failed"),
               <<Step(EnumMember("done")), Step(PlainValue("Failed"))>>, None),
      Snapshot(PlainValue("cancelled"), <<>>, None),
      Snapshot(EnumMember("checkpoint"), <<Step(EnumMember("checkpoint"))>>, None),
      Snapshot(NoValue, <<Step(NoValue)>>, None) }

RECURSIVE CountSteps(_, _)
CountSteps(steps, wanted) ==
    IF steps = <<>> THEN 0
    ELSE (IF StatusValue(Head(steps).status) \in wanted THEN 1 ELSE 0)
         + CountSteps(Tail(steps), wanted)

\* round(x, 2) of the ratio num/den (den > 0), in hundredths: ties to even
RoundRatio(num, den) ==
    LET q == num \div den
        r == num % den
    IN  IF 2 * r > den \/ (2 * r = den /\ q % 2 = 1) THEN q + 1 ELSE q

\* _safe_progress with the ratio cut off after two decimals
SafeProgressTruncated(task, completed_steps, total_steps) ==
    IF task.own_pct # None THEN task.own_pct[1]
    ELSE IF total_steps <= 0 THEN 0
    ELSE (completed_steps * 10000) \div total_steps

\* _safe_progress, in hundredths of a percent
SafeProgress(task, completed_steps, total_steps) ==
    IF task.own_pct # None THEN task.own_pct[1]
    ELSE IF total_steps <= 0 THEN 0
    ELSE RoundRatio(completed_steps * 10000, total_steps)

\* _summarize_task that counts every step as completed
SummarizeTaskAllCompleted(task) ==
    [steps_total |-> Len(task.steps),
     steps_completed |-> Len(task.steps),
     steps_failed |-> CountSteps(task.steps, {"failed"}),
     progress_percentage |-> SafeProgress(task, Len(task.steps), Len(task.steps))]

\* _summarize_task
SummarizeTask(task) ==
    LET steps == task.steps
        total_steps == Len(steps)
        completed_steps == CountSteps(steps, {"done", "completed"})
        failed_steps == CountSteps(steps, {"failed"})
    IN  [steps_total |-> total_steps,
         steps_completed |-> completed_steps,
         steps_failed |-> failed_steps,
         progress_percentage |-> SafeProgress(task, completed_steps, total_steps)]

-----------------------------------------------------------------------------
(* Checkpoints *)

\* datetime.isoformat()
IsoFormat(dt) == <<"iso", dt>>

\* a CheckpointState of the plan_id schema
Checkpoint(plan_id, step_id, checkpoint_type, expires_at) ==
    [plan_id |-> plan_id, step_id |-> step_id, checkpoint_name |-> "approval",
     description |-> "Need approval", checkpoint_type |-> checkpoint_type,
     preview_data |-> "preview", questions |-> None, alternatives |-> None,
     created_at |-> Some(1), expires_at |-> expires_at]

\* a checkpoint of the task_id schema: it has no plan_id attribute
LegacyCheckpoint(task_id, step_id, checkpoint_type) ==
    [task_id |-> task_id, step_id |-> step_id, checkpoint_name |-> "approval",
     description |-> "Need approval", checkpoint_type |-> checkpoint_type,
     preview_data |-> "preview", questions |-> None, alternatives |-> None,
     created_at |-> None, expires_at |-> None]

Checkpoints ==
    { Checkpoint("task-123", "step-approval", EnumMember("approval"), Some(2)),
      Checkpoint("task-123", "step-input", PlainValue("input"), None),
      Checkpoint("task-123", "step-untyped", NoValue, None),
      Checkpoint("task-999", "step-empty", PlainValue(""), Some(3)),
      LegacyCheckpoint("task-123", "step-legacy", EnumMember("approval")) }

\* what list_pending_for_task may return: no checkpoint, one, or two of which
\* the second is the approval checkpoint of the tests
PendingLists ==
    {<<>>} \cup {<<c>> : c \in Checkpoints}
    \cup {<<c, Checkpoint("task-123", "step-approval", EnumMember("approval"), Some(2))>> :
             c \in Checkpoints}

\* reading checkpoint.plan_id raises AttributeError on the task_id schema
SerializeRaises(checkpoint) == "plan_id" \notin DOMAIN checkpoint

\* getattr(checkpoint_type, "value", checkpoint_type) or "approval"
CheckpointTypeValue(checkpoint) ==
    LET raw == checkpoint.checkpoint_type.value
    IN  IF raw = None \/ raw[1] = "" THEN "approval" ELSE raw[1]

\* _serialize_checkpoint (defined when it does not raise)
SerializeCheckpoint(checkpoint) ==
    [task_id |-> checkpoint.plan_id,
     step_id |-> checkpoint.step_id,
     checkpoint_name |-> checkpoint.checkpoint_name,
     description |-> checkpoint.description,
     checkpoint_type |-> CheckpointTypeValue(checkpoint),
     preview_data |-> checkpoint.preview_data,
     questions |-> checkpoint.questions,
     alternatives |-> checkpoint.alternatives,
     created_at |-> IF checkpoint.created_at # None
                    THEN Some(IsoFormat(checkpoint.created_at[1])) ELSE None,
     expires_at |-> IF checkpoint.expires_at # None
                    THEN Some(IsoFormat(checkpoint.expires_at[1])) ELSE None]

-----------------------------------------------------------------------------
(* Configuration and inputs *)

\* INBOX_CREATE_TASK_WAIT_TIMEOUT_SECONDS and ..._MAX_TIMEOUT_SECONDS
DefaultTimeoutSettings == {-1, MaxTimeoutSetting}
MaxTimeoutSettings == {0, MaxTimeoutSetting}

\* INBOX_CREATE_TASK_WAIT_POLL_INTERVAL_SECONDS, in ticks
PollSettings == {-PollFloor, 0, Second \div 2}

Settings ==
    [INBOX_CREATE_TASK_WAIT_TIMEOUT_SECONDS : DefaultTimeoutSettings,
     INBOX_CREATE_TASK_WAIT_MAX_TIMEOUT_SECONDS : MaxTimeoutSettings,
     INBOX_CREATE_TASK_WAIT_POLL_INTERVAL_SECONDS : PollSettings]

\* arguments.get("wait_timeout_seconds"): missing, an int, or a string int() rejects
RequestedTimeouts ==
    {[kind |-> "none", n |-> 0], [kind |-> "badstr", n |-> 0]}
    \cup {[kind |-> "int", n |-> n] : n \in {-1, MaxTimeoutSetting + 1}}

\* a conversion that accepts integers only
IntOfIntegersOnly(requested) ==
    IF requested.kind = "int" THEN Some(requested.n) ELSE None

\* int(requested): None when it raises TypeError or ValueError.  A float is
\* given in halves and truncated toward zero, a boolean is 0 or 1, a string
\* of digits is parsed.
IntOf(requested) ==
    CASE requested.kind \in {"int", "bool", "numstr"} -> Some(requested.n)
      [] requested.kind = "float" ->
            Some(IF requested.n >= 0 THEN requested.n \div 2
                 ELSE -((-requested.n) \div 2))
      [] OTHER -> None

\* int(float("inf")) raises OverflowError, which lines 101-104 do not catch
ResolveRaises(args) == args.wait_timeout_seconds.kind = "inf"

\* the resolution with the requested value ignored
ResolveWaitTimeoutDefaultOnly(args, config) ==
    Max(0, Min(config.INBOX_CREATE_TASK_WAIT_TIMEOUT_SECONDS,
               config.INBOX_CREATE_TASK_WAIT_MAX_TIMEOUT_SECONDS))

\* _resolve_wait_timeout
ResolveWaitTimeout(args, config) ==
    LET requested == args.wait_timeout_seconds
        default_timeout == config.INBOX_CREATE_TASK_WAIT_TIMEOUT_SECONDS
        max_timeout == config.INBOX_CREATE_TASK_WAIT_MAX_TIMEOUT_SECONDS
    IN  IF requested.kind = "none" THEN Max(0, Min(default_timeout, max_timeout))
        ELSE IF IntOf(requested) = None
        THEN Max(0, Min(default_timeout, max_timeout))
        ELSE Max(0, Min(IntOf(requested)[1], max_timeout))

\* the constraints argument: missing, or a dict given as the set of its keys
ConstraintArgs == {None, Some({}), Some({"budget"})}

\* arguments.get("wait_for_completion", True): missing, or a boolean
WaitArgs == {None, Some(TRUE), Some(FALSE)}

\* arguments["goal"] raises KeyError when the key is missing
GoalArgs == {None, Some("Research X")}

Arguments ==
    [goal : GoalArgs, constraints : ConstraintArgs,
     wait_for_completion : WaitArgs, wait_timeout_seconds : RequestedTimeouts]

\* the context map: organization_id and file_references come together
Contexts ==
    { [user_id |-> u, conversation_id |-> c, organization_id |-> o[1],
       file_references |-> o[2]] :
        u \in {None, Some("user-123")}, c \in {None, Some("conv-123")},
        o \in {<<None, None>>, <<Some("org-123"), Some(<<"file-1">>)>>} }

-----------------------------------------------------------------------------
(* Results *)

ToolResult(success, data, message, error) ==
    [success |-> success, data |-> data, message |-> message, error |-> error]

NoResult == [pending |-> TRUE]

\* the outer except answering with success=True
CreateFailedAsSuccess(e) ==
    ToolResult(TRUE, None, None, Some(<<"Failed to create task: ", e>>))

\* the outer except of execute(): error=f"Failed to create task: {str(e)}"
CreateFailed(e) ==
    ToolResult(FALSE, None, None, Some(<<"Failed to create task: ", e>>))

MissingContext ==
    ToolResult(FALSE, None, None, Some(<<"Missing user_id or conversation_id in context">>))

\* the exceptions the collaborators raise, as their str()
ProviderError == "provider unavailable"
BackendError == "backend error"
AttributeError == "object has no attribute 'plan_id'"

TaskId == "task-123"

Goal == arguments.goal[1]

base_data == ("task_id" :> TaskId) @@ ("goal" :> Goal) @@ ("timed_out" :> FALSE)

-----------------------------------------------------------------------------
(* The bounded wait: its pure parts *)

terminal_statuses == {"completed", "failed", "cancelled", "checkpoint"}

\* poll_interval with the configured value taken as it is
PollIntervalNoFloor(config) == config.INBOX_CREATE_TASK_WAIT_POLL_INTERVAL_SECONDS

\* poll_interval = max(0.2, float(settings....POLL_INTERVAL_SECONDS))
PollInterval(config) ==
    Max(PollFloor, config.INBOX_CREATE_TASK_WAIT_POLL_INTERVAL_SECONDS)

\* asyncio.sleep(poll_interval): the sleep not clamped to the remaining time
SleepArgumentUnclamped(poll_interval, remaining) == poll_interval

\* asyncio.sleep(min(poll_interval, remaining)): the sleep without its floor
SleepArgumentNoFloor(poll_interval, remaining) == Min(poll_interval, remaining)

\* the argument of asyncio.sleep: min(poll_interval, max(0.01, remaining))
SleepArgument(poll_interval, remaining) ==
    Min(poll_interval, Max(SleepFloor, remaining))

\* how long a get_task call may take, at most one poll interval: no time, one
\* tick less than the interval, or the whole interval
FetchLatencies == {0, PollInterval(settings) - 1, PollInterval(settings)} \cap Nat

\* what a get_task call may do: raise, return None, or return a snapshot
FetchOutcomes ==
    {[kind |-> "raise", task |-> None], [kind |-> "return", task |-> None]}
    \cup {[kind |-> "return", task |-> Some(t)] : t \in TaskSnapshots}

\* the response without the summary of the observed snapshot
RespondWithoutSummary(observed_task, observed_status, timed_out) ==
    ToolResult(TRUE,
        ("status" :> observed_status) @@ ("timed_out" :> timed_out) @@ base_data,
        Some(<<"Task created and started.">>), None)

\* the response with the observed status passed through on a timeout
RespondPassThrough(observed_task, observed_status, timed_out) ==
    ToolResult(TRUE,
        ("status" :> observed_status) @@ ("timed_out" :> timed_out)
        @@ (IF observed_task # None
            THEN SummarizeTask(observed_task[1]) @@ base_data ELSE base_data),
        Some(<<"Task created and started.">>), None)

\* the response of execute() once the wait has returned without a checkpoint
\* (lines 266-283 and 297-321)
Respond(observed_task, observed_status, timed_out) ==
    LET data == IF observed_task # None
                THEN SummarizeTask(observed_task[1]) @@ base_data
                ELSE base_data
    IN  IF timed_out
        THEN ToolResult(TRUE,
                 ("status" :> "running") @@ ("current_status" :> observed_status)
                 @@ ("timed_out" :> TRUE)
                 @@ ("wait_timeout_seconds" :> wait_timeout_seconds) @@ data,
                 Some(<<"Task started and is still running. Use get_task_status for updates.">>),
                 None)
        ELSE IF observed_status \in {"completed", "failed", "cancelled"}
        THEN ToolResult(TRUE, ("status" :> observed_status) @@ data,
                 Some(<<"Task reached terminal status: ", observed_status, ".">>), None)
        ELSE ToolResult(TRUE, ("status" :> observed_status) @@ data,
                 Some(<<"Task created and started.">>), None)

\* the checkpoint response (lines 286-295)
CheckpointResponse(observed_task, checkpoint_data) ==
    ToolResult(TRUE,
        ("status" :> "checkpoint") @@ ("checkpoint" :> checkpoint_data)
        @@ (IF observed_task # None
            THEN SummarizeTask(observed_task[1]) @@ base_data ELSE base_data),
        Some(<<"Task is waiting for your checkpoint approval.">>), None)

-----------------------------------------------------------------------------
(* State *)

\* wait_for_completion taken as true whatever the argument says
WaitForCompletionAlways(args) == TRUE

\* bool(arguments.get("wait_for_completion", True))
WaitForCompletion(args) ==
    IF args.wait_for_completion = None THEN TRUE
    ELSE args.wait_for_completion[1]

\* the calls the backend has seen: the create, link and list calls in order,
\* the number of get_task calls, and whether "none", "some" or "all" of them
\* raised
NoCalls == [calls |-> <<>>, get_task |-> 0, failures |-> "none"]

\* the inputs of one call.  A call that waits with a positive timeout is
\* explored with one shape of constraints and context: neither is read by
\* the wait
Inputs ==
    { i \in Arguments \X Contexts \X Settings :
        (WaitForCompletion(i[1]) /\ ResolveWaitTimeout(i[1], i[3]) > 0)
            => /\ i[1].constraints = Some({"budget"})
               /\ i[2].organization_id # None }

\* the locals of get_task_status before execute() has run: the providers it
\* resolved, what the backend answered, and how many provider factories it called
NoStatusLocals ==
    [task_use_cases |-> None, checkpoint_use_cases |-> None, plan |-> None,
     active_plans |-> None, checkpoints |-> None, factory_calls |-> 0,
     factories |-> {}]

\* no call of a memoized getter is followed
NoCallers == [calls |-> <<>>, log |-> <<>>, overlapped |-> FALSE]

\* get_task_status is not asked through both provider shapes
NoShapes == [content |-> None, first |-> None, run |-> 0]

\* no concurrent waits are followed
NoWaits == <<>>

\* no get_task_status call is under way
StatusIdle ==
    /\ status_arguments = [plan_id |-> None, include_completed |-> None,
                           include_checkpoints |-> None, limit |-> None]
    /\ status_context = [user_id |-> None, delegation_service |-> None,
                         task_use_cases |-> None, checkpoint_use_cases |-> None]
    /\ status_globals = [task_use_cases |-> None, checkpoint_use_cases |-> None]
    /\ status_locals = NoStatusLocals

\* a call of create_task: the module globals are unset and execute() starts
Init ==
    /\ \E i \in Inputs :
           /\ arguments = i[1]
           /\ context = i[2]
           /\ settings = i[3]
    /\ StatusIdle
    /\ task_use_cases = None
    /\ checkpoint_use_cases = None
    /\ pc = "start"
    /\ wait_timeout_seconds = 0
    /\ constraints = {}
    /\ backend = NoCalls
    /\ now = 0
    /\ deadline = 0
    /\ last_task = None
    /\ last_status = "planning"
    /\ last_fetch = None
    /\ delivered = None
    /\ wait_result = None
    /\ pending = None
    /\ result = NoResult
    /\ callers = NoCallers
    /\ shapes = NoShapes
    /\ waits = NoWaits

Finish(r) ==
    /\ result' = r
    /\ pc' = "done"

Called(call) == [backend EXCEPT !.calls = Append(@, call)]

-----------------------------------------------------------------------------
(* execute(), lines 206-223: read the arguments, merge the file references, *)
(* validate the context                                                     *)

Execute ==
    /\ UNCHANGED <<status_vars, callers, shapes, waits>>
    /\ pc = "start"
    /\ IF arguments.goal = None \/ ResolveRaises(arguments)
       THEN \* arguments["goal"] raises KeyError, or int() OverflowError,
            \* outside the try block
            /\ pc' = "raised"
            /\ UNCHANGED <<arguments, wait_timeout_seconds, constraints, result>>
       ELSE LET given == arguments.constraints
                \* arguments.get("constraints") or {}: a non-empty dict is the
                \* caller's own object, anything else a fresh dict
                aliased == given # None /\ given[1] # {}
                local == IF aliased THEN given[1] ELSE {}
                file_references == context.file_references
                merged == IF file_references # None
                          THEN local \cup {"file_references"} ELSE local
            IN  /\ constraints' = merged
                /\ arguments' = IF aliased
                                THEN [arguments EXCEPT !.constraints = Some(merged)]
                                ELSE arguments
                /\ wait_timeout_seconds' = ResolveWaitTimeout(arguments, settings)
                /\ IF context.user_id = None \/ context.conversation_id = None
                   THEN Finish(MissingContext)
                   ELSE /\ pc' = "provider"
                        /\ UNCHANGED result
    /\ UNCHANGED <<context, settings, task_use_cases, checkpoint_use_cases, backend,
                   now, deadline, last_task, last_status, last_fetch, delivered,
                   wait_result, pending>>

(* _get_task_use_cases(), lines 27-31, awaited at line 226 *)
GetTaskUseCases ==
    /\ UNCHANGED <<status_vars, callers, shapes, waits>>
    /\ pc = "provider"
    /\ IF task_use_cases # None
       THEN /\ pc' = "create"
            /\ UNCHANGED <<task_use_cases, result>>
       ELSE \E built \in BOOLEAN :
                IF built
                THEN /\ task_use_cases' = Some("TaskUseCases")
                     /\ pc' = "create"
                     /\ UNCHANGED result
                ELSE /\ Finish(CreateFailed(ProviderError))
                     /\ UNCHANGED task_use_cases
    /\ UNCHANGED <<arguments, context, settings, checkpoint_use_cases,
                   wait_timeout_seconds, constraints, backend, now, deadline,
                   last_task, last_status, last_fetch, delivered, wait_result, pending>>

\* the metadata with the conversation id left out
TaskMetadataNoConversation(ctx) == [source |-> "inbox_chat", conversation_id |-> ""]

\* lines 232-235: the metadata of the created task
TaskMetadata(ctx) ==
    [source |-> "inbox_chat", conversation_id |-> ctx.conversation_id[1]]

(* task_use_cases.create_task(...), lines 227-237 *)
CreateTask ==
    /\ UNCHANGED <<status_vars, callers, shapes, waits>>
    /\ pc = "create"
    /\ \E ok \in BOOLEAN :
           /\ backend' = Called(
                  [op |-> "create_task",
                   user_id |-> context.user_id[1],
                   organization_id |-> IF context.organization_id = None
                                       THEN "" ELSE context.organization_id[1],
                   goal |-> Goal,
                   constraints |-> IF constraints = {} THEN None ELSE Some(constraints),
                   metadata |-> TaskMetadata(context),
                   auto_start |-> TRUE,
                   ok |-> ok])
           /\ IF ok
              THEN /\ pc' = "link"
                   /\ UNCHANGED result
              ELSE Finish(CreateFailed(BackendError))
    /\ UNCHANGED <<arguments, context, settings, task_use_cases, checkpoint_use_cases,
                   wait_timeout_seconds, constraints, now, deadline, last_task,
                   last_status, last_fetch, delivered, wait_result, pending>>

(* task_use_cases.link_conversation(...), lines 239-258, and the start of *)
(* _wait_for_terminal_status, lines 114-119                               *)
LinkConversation ==
    /\ UNCHANGED <<status_vars, callers, shapes, waits>>
    /\ pc = "link"
    /\ \E ok \in BOOLEAN :
           /\ backend' = Called([op |-> "link_conversation", task_id |-> TaskId,
                                 conversation_id |-> context.conversation_id[1],
                                 ok |-> ok])
           /\ IF ~ok
              THEN /\ Finish(CreateFailed(BackendError))
                   /\ UNCHANGED <<deadline, last_task, last_status>>
              ELSE IF ~WaitForCompletion(arguments)
              THEN /\ Finish(ToolResult(TRUE, ("status" :> "planning") @@ base_data,
                          Some(<<"Task created and planning started: ", Goal>>), None))
                   /\ UNCHANGED <<deadline, last_task, last_status>>
              ELSE /\ deadline' = now + Max(0, wait_timeout_seconds * Second)
                   /\ last_task' = None
                   /\ last_status' = "planning"
                   /\ pc' = "fetch"
                   /\ UNCHANGED result
    /\ UNCHANGED <<arguments, context, settings, task_use_cases, checkpoint_use_cases,
                   wait_timeout_seconds, constraints, now, last_fetch, delivered,
                   wait_result, pending>>

-----------------------------------------------------------------------------
(* _wait_for_terminal_status, lines 121-141 *)

\* lines 122-130: the task of this iteration; an exception leaves None
FetchedTask(outcome) == IF outcome.kind = "raise" THEN None ELSE outcome.task

\* last_task assigned on every iteration, also when nothing was fetched
ObservedTaskUnguarded(task, previous) == task

\* lines 131-132: last_task after this iteration
ObservedTask(task, previous) == IF task # None THEN task ELSE previous

\* last_status assigned on every iteration: getattr(None, "status", None) is None
ObservedStatusUnguarded(task, previous) ==
    IF task # None THEN StatusValue(task[1].status) ELSE "unknown"

\* lines 131-133: last_status after this iteration
ObservedStatus(task, previous) ==
    IF task # None THEN StatusValue(task[1].status) ELSE previous

\* the early return with "cancelled" missing from the terminal statuses
ReturnsEarlyNoCancelled(task, status) ==
    task # None /\ status \in terminal_statuses \ {"cancelled"}

\* the early return on every snapshot fetched, whatever its status
ReturnsEarlyOnAnySnapshot(task, status) == task # None

\* lines 131-135: the early return on a terminal or checkpoint status
ReturnsEarly(task, status) == task # None /\ status \in terminal_statuses

\* the deadline test with the comparison reversed
DeadlinePassedReversed(t, d) == t <= d

\* line 137: monotonic() >= deadline
DeadlinePassed(t, d) == t >= d

\* one iteration with the deadline tested before the status
WaitOutcomeDeadlineFirst(task, status, t, d) ==
    IF DeadlinePassed(t, d) THEN "timed_out"
    ELSE IF ReturnsEarly(task, status) THEN "terminal"
    ELSE "sleep"

\* lines 130-138: what one iteration does once get_task has answered: the
\* test of the status comes before the test of the deadline
WaitOutcome(task, status, t, d) ==
    IF ReturnsEarly(task, status) THEN "terminal"
    ELSE IF DeadlinePassed(t, d) THEN "timed_out"
    ELSE "sleep"

\* execute(), lines 266-321, once the wait returned (observed_task,
\* observed_status, timed_out): respond, or go on to fetch the checkpoint
AfterWait(observed_task, observed_status, timed_out) ==
    IF ~timed_out /\ observed_status = "checkpoint"
    THEN /\ pc' = "cp_provider"
         /\ UNCHANGED result
    ELSE Finish(Respond(observed_task, observed_status, timed_out))

WaitFetch ==
    /\ UNCHANGED <<status_vars, callers, shapes, waits>>
    /\ pc = "fetch"
    /\ backend.get_task < MaxFetches
    /\ \E outcome \in FetchOutcomes, latency \in FetchLatencies :
           LET task == FetchedTask(outcome)
               new_task == ObservedTask(task, last_task)
               new_status == ObservedStatus(task, last_status)
               t == now + latency
           IN  /\ backend' = [backend EXCEPT
                      !.get_task = @ + 1,
                      !.failures =
                          IF outcome.kind = "raise"
                          THEN (IF backend.get_task = 0 \/ @ = "all"
                                THEN "all" ELSE "some")
                          ELSE (IF @ = "none" THEN "none" ELSE "some")]
               /\ now' = t
               /\ last_fetch' = Some([kind |-> outcome.kind, task |-> outcome.task,
                                      at |-> t, call_no |-> backend.get_task + 1])
               /\ delivered' = IF outcome.kind = "return" /\ outcome.task # None
                               THEN outcome.task ELSE delivered
               /\ last_task' = new_task
               /\ last_status' = new_status
               /\ IF WaitOutcome(task, new_status, t, deadline) = "terminal"
                  THEN /\ wait_result' = Some([task |-> task, status |-> new_status,
                                               timed_out |-> FALSE])
                       /\ AfterWait(task, new_status, FALSE)
                  ELSE IF WaitOutcome(task, new_status, t, deadline) = "timed_out"
                  THEN /\ wait_result' = Some([task |-> new_task, status |-> new_status,
                                               timed_out |-> TRUE])
                       /\ AfterWait(new_task, new_status, TRUE)
                  ELSE /\ pc' = "sleep"
                       /\ UNCHANGED <<wait_result, result>>
    /\ UNCHANGED <<arguments, context, settings, task_use_cases, checkpoint_use_cases,
                   wait_timeout_seconds, constraints, deadline, pending>>

\* lines 140-141: asyncio.sleep returns at once for a delay that is not positive
WaitSleep ==
    /\ UNCHANGED <<status_vars, callers, shapes, waits>>
    /\ pc = "sleep"
    /\ now' = now + Max(0, SleepArgument(PollInterval(settings), deadline - now))
    /\ pc' = "fetch"
    /\ UNCHANGED <<arguments, context, settings, task_use_cases, checkpoint_use_cases,
                   wait_timeout_seconds, constraints, backend, deadline, last_task,
                   last_status, last_fetch, delivered, wait_result, pending, result>>

-----------------------------------------------------------------------------
(* _get_pending_checkpoint, lines 144-149, called at line 286 *)

(* _get_checkpoint_use_cases(), lines 34-38, awaited at line 145 *)
GetCheckpointUseCases ==
    /\ UNCHANGED <<status_vars, callers, shapes, waits>>
    /\ pc = "cp_provider"
    /\ IF checkpoint_use_cases # None
       THEN /\ pc' = "cp_list"
            /\ UNCHANGED <<checkpoint_use_cases, result>>
       ELSE \E built \in BOOLEAN :
                IF built
                THEN /\ checkpoint_use_cases' = Some("CheckpointUseCases")
                     /\ pc' = "cp_list"
                     /\ UNCHANGED result
                ELSE /\ Finish(CreateFailed(ProviderError))
                     /\ UNCHANGED checkpoint_use_cases
    /\ UNCHANGED <<arguments, context, settings, task_use_cases, wait_timeout_seconds,
                   constraints, backend, now, deadline, last_task, last_status,
                   last_fetch, delivered, wait_result, pending>>

\* what list_pending_for_task may do: raise, or return a list
PendingOutcomes ==
    {[kind |-> "raise", list |-> <<>>]}
    \cup {[kind |-> "return", list |-> l] : l \in PendingLists}

\* the last element of the pending list
LastPending(list) == list[Len(list)]

\* line 149: pending[0]
FirstPending(list) == list[1]

(* checkpoint_use_cases.list_pending_for_task(task_id), lines 146-149, and *)
(* the checkpoint response, lines 287-295                                  *)
ListPendingForTask ==
    /\ UNCHANGED <<status_vars, callers, shapes, waits>>
    /\ pc = "cp_list"
    /\ \E outcome \in PendingOutcomes :
           /\ backend' = Called([op |-> "list_pending_for_task", task_id |-> TaskId,
                                 ok |-> outcome.kind = "return"])
           /\ pending' = Some(outcome)
           /\ IF outcome.kind = "raise"
              THEN Finish(CreateFailed(BackendError))
              ELSE IF outcome.list = <<>>
              THEN Finish(CheckpointResponse(wait_result[1].task, None))
              ELSE IF SerializeRaises(FirstPending(outcome.list))
              THEN Finish(CreateFailed(AttributeError))
              ELSE Finish(CheckpointResponse(wait_result[1].task,
                       Some(SerializeCheckpoint(FirstPending(outcome.list)))))
    /\ UNCHANGED <<arguments, context, settings, task_use_cases, checkpoint_use_cases,
                   wait_timeout_seconds, constraints, now, deadline, last_task,
                   last_status, last_fetch, delivered, wait_result>>

-----------------------------------------------------------------------------
(* get_task_status: arguments, context and what the providers return *)

\* most tasks a listing call of the backend returns
MaxListed == 8

\* largest magnitude of the timeouts (seconds) the resolution of the wait
\* timeout is explored with
MaxMagnitude == 3

\* the arguments object; None is a missing key
StatusArguments ==
    [plan_id : {None, Some(TaskId)},
     include_completed : {None, Some(TRUE), Some(FALSE)},
     include_checkpoints : {None, Some(TRUE), Some(FALSE)},
     limit : {None, Some(1)}]

\* the context map: the requesting user and the providers it carries
StatusContexts ==
    [user_id : {None, Some("user-123")},
     delegation_service : {None, Some("DelegationService")},
     task_use_cases : {None, Some("ContextTaskUseCases")},
     checkpoint_use_cases : {None, Some("ContextCheckpointUseCases")}]

\* lines 116-118: arguments.get(key, default)
IncludeCompleted(args) ==
    IF args.include_completed = None THEN FALSE ELSE args.include_completed[1]

IncludeCheckpoints(args) ==
    IF args.include_checkpoints = None THEN TRUE ELSE args.include_checkpoints[1]

Limit(args) == IF args.limit = None THEN 10 ELSE args.limit[1]

\* a task as a provider returns it
Plan(id, user_id, goal, snapshot) ==
    [id |-> id, user_id |-> user_id, goal |-> goal, status |-> snapshot.status,
     steps |-> snapshot.steps, own_pct |-> snapshot.own_pct,
     created_at |-> Some(1), updated_at |-> None]

\* the snapshots get_plan / get_task may return for the requested id
PlanSnapshots ==
    { Snapshot(EnumMember("planning"), <<Step(EnumMember("pending"))>>, Some(5000)),
      Snapshot(PlainValue("COMPLETED"),
               <<Step(PlainValue("completed")), Step(PlainValue("DONE")),
                 Step(EnumMember("failed"))>>, None),
      Snapshot(NoValue, <<>>, None) }

\* what get_plan / get_task may do: raise, return None, or return the task
\* with the requested id, owned by the requesting user or by another one
PlanOutcomes ==
    {[kind |-> "raise", plan |-> None], [kind |-> "return", plan |-> None]}
    \cup {[kind |-> "return", plan |-> Some(Plan(TaskId, owner, "Research X", snapshot))] :
             owner \in {"user-123", "user-456"}, snapshot \in PlanSnapshots}

\* the ids of the listed tasks, in fetch order
ListedIds ==
    <<"task-1", "task-2", "task-3", "task-4", "task-5", "task-6", "task-7", "task-8",
      "task-9", "task-10">>

\* the statuses of the listed tasks, repeated along the list
StatusPatterns ==
    { <<EnumMember("completed")>>,
      <<EnumMember("planning"), EnumMember("completed")>>,
      <<PlainValue("Failed"), EnumMember("checkpoint"), PlainValue("cancelled"),
        PlainValue("COMPLETED")>>,
      <<EnumMember("ready"), PlainValue("EXECUTING"), NoValue, PlainValue("archived")>> }

\* what get_user_plans / list_tasks may return
TaskLists ==
    { [i \in 1 .. n |->
          Plan(ListedIds[i], "user-123", "Listed goal",
               Snapshot(pattern[((i - 1) % Len(pattern)) + 1],
                        <<Step(EnumMember("done"))>>, Some(5000)))] :
        n \in 0 .. MaxListed, pattern \in StatusPatterns }

ListOutcomes ==
    {[kind |-> "raise", list |-> <<>>]}
    \cup {[kind |-> "return", list |-> l] : l \in TaskLists}

-----------------------------------------------------------------------------
(* get_task_status: formatting *)

\* _format_plan; progress in hundredths of a percent
FormatPlan(plan) ==
    LET steps == plan.steps
        completed_steps == CountSteps(steps, {"done", "completed"})
        failed_steps == CountSteps(steps, {"failed"})
        progress == IF plan.own_pct # None THEN plan.own_pct[1]
                    ELSE IF steps # <<>>
                    THEN RoundRatio(completed_steps * 10000, Len(steps))
                    ELSE 0
    IN  [plan_id |-> plan.id,
         goal |-> plan.goal,
         status |-> StatusValue(plan.status),
         progress |-> progress,
         steps_total |-> Len(steps),
         steps_completed |-> completed_steps,
         steps_failed |-> failed_steps,
         created_at |-> IF plan.created_at # None
                        THEN Some(IsoFormat(plan.created_at[1])) ELSE None,
         updated_at |-> IF plan.updated_at # None
                        THEN Some(IsoFormat(plan.updated_at[1])) ELSE None]

\* getattr(c, "plan_id", getattr(c, "task_id", None))
CheckpointPlanId(checkpoint) ==
    IF "plan_id" \in DOMAIN checkpoint THEN Some(checkpoint.plan_id)
    ELSE IF "task_id" \in DOMAIN checkpoint THEN Some(checkpoint.task_id)
    ELSE None

\* _format_checkpoint
FormatCheckpoint(checkpoint) ==
    [plan_id |-> CheckpointPlanId(checkpoint),
     step_id |-> checkpoint.step_id,
     name |-> checkpoint.checkpoint_name,
     description |-> checkpoint.description,
     preview |-> checkpoint.preview_data,
     created_at |-> IF checkpoint.created_at # None
                    THEN Some(IsoFormat(checkpoint.created_at[1])) ELSE None,
     expires_at |-> IF checkpoint.expires_at # None
                    THEN Some(IsoFormat(checkpoint.expires_at[1])) ELSE None]

\* [self._format_plan(p) for p in plans]
FormatPlans(plans) == [i \in 1 .. Len(plans) |-> FormatPlan(plans[i])]

\* [self._format_checkpoint(c) for c in checkpoints]
FormatCheckpoints(checkpoints) ==
    [i \in 1 .. Len(checkpoints) |-> FormatCheckpoint(checkpoints[i])]

-----------------------------------------------------------------------------
(* get_task_status: results *)

\* line 127
NoUserContext == ToolResult(FALSE, None, None, Some(<<"User context not available">>))

\* line 145
NoDelegationService ==
    ToolResult(FALSE, None, None, Some(<<"Delegation service not available">>))

\* the not-found answer without the requested id
NotFoundAnonymous(plan_id) == ToolResult(FALSE, None, None, Some(<<"Task not found">>))

\* line 159: error=f"Task not found: {plan_id}"
NotFound(plan_id) == ToolResult(FALSE, None, None, Some(<<"Task not found: ", plan_id>>))

\* line 165
AccessDenied == ToolResult(FALSE, None, None, Some(<<"Access denied to this task">>))

\* the outer except of execute(): error=f"Failed to get task status: {str(e)}"
StatusFailed(e) ==
    ToolResult(FALSE, None, None, Some(<<"Failed to get task status: ", e>>))

\* the checks on the fetched task with the ownership check left out
PlanCheckNoOwner(plan, plan_id, user_id) ==
    IF plan = None THEN Some(NotFound(plan_id)) ELSE None

\* lines 158-168: the failure the fetched task leads to, None when it passes
PlanCheck(plan, plan_id, user_id) ==
    IF plan = None THEN Some(NotFound(plan_id))
    ELSE IF plan[1].user_id # user_id THEN Some(AccessDenied)
    ELSE None

\* every fetched checkpoint, whatever task it belongs to
PlanCheckpointsUnfiltered(checkpoints, plan_id) == checkpoints

\* lines 180-184: the checkpoints whose plan_id (or task_id) is the requested id
PlanCheckpointsOf(checkpoints, plan_id) ==
    SelectSeq(checkpoints, LAMBDA c : CheckpointPlanId(c) = Some(plan_id))

\* lines 170-195: the answer of the single-task mode
SingleTaskResponse(plan, plan_checkpoints) ==
    ToolResult(TRUE,
        IF plan_checkpoints # <<>>
        THEN ("pending_checkpoints" :> FormatCheckpoints(plan_checkpoints))
             @@ FormatPlan(plan)
        ELSE FormatPlan(plan),
        Some(<<"Task '", plan.goal, "...' is ", StatusValue(plan.status)>>), None)

\* lines 215-226
active_status_values == {"planning", "ready", "executing", "checkpoint"}
terminal_status_values == {"completed", "failed", "cancelled"}

\* line 239: the cap on the completed tasks of a listing
CompletedCap == 5

\* lines 228-232
ActiveTasks(active_plans) ==
    SelectSeq(active_plans, LAMBDA p : StatusValue(p.status) \in active_status_values)

\* lines 233-239 without the cap
CompletedTasksUncapped(active_plans, include_completed) ==
    IF include_completed
    THEN SelectSeq(active_plans, LAMBDA p : StatusValue(p.status) \in terminal_status_values)
    ELSE <<>>

\* lines 233-239
CompletedTasks(active_plans, include_completed) ==
    IF include_completed
    THEN LET terminal == SelectSeq(active_plans,
                 LAMBDA p : StatusValue(p.status) \in terminal_status_values)
         IN  SubSeq(terminal, 1, Min(CompletedCap, Len(terminal)))
    ELSE <<>>

\* lines 268-279: the summary message
SummaryMessage(active_tasks, pending_checkpoints, completed_tasks) ==
    LET summary_parts ==
            (IF active_tasks # <<>>
             THEN <<<<Len(active_tasks), " active task(s)">>>> ELSE <<>>)
            \o (IF pending_checkpoints # <<>>
                THEN <<<<Len(pending_checkpoints), " checkpoint(s) pending approval">>>>
                ELSE <<>>)
            \o (IF completed_tasks # <<>>
                THEN <<<<Len(completed_tasks), " recently completed">>>> ELSE <<>>)
    IN  IF summary_parts = <<>> THEN <<"No active tasks">> ELSE summary_parts

\* lines 252-285: the answer of the listing mode
ListingResponse(active_plans, include_completed, include_checkpoints, checkpoints) ==
    LET active_tasks == ActiveTasks(active_plans)
        completed_tasks == CompletedTasks(active_plans, include_completed)
        pending_checkpoints == FormatCheckpoints(checkpoints)
        listed == ("active_tasks" :> FormatPlans(active_tasks))
                  @@ ("active_count" :> Len(active_tasks))
        with_completed ==
            IF include_completed
            THEN ("completed_tasks" :> FormatPlans(completed_tasks))
                 @@ ("completed_count" :> Len(completed_tasks)) @@ listed
            ELSE listed
        result_data ==
            IF include_checkpoints
            THEN ("pending_checkpoints" :> pending_checkpoints)
                 @@ ("checkpoint_count" :> Len(pending_checkpoints)) @@ with_completed
            ELSE with_completed
    IN  ToolResult(TRUE, result_data,
            Some(SummaryMessage(active_tasks, pending_checkpoints, completed_tasks)), None)

-----------------------------------------------------------------------------
(* get_task_status: execute() *)

\* a call of get_task_status: no create_task call is under way, and the module
\* globals are unset or memoized by an earlier call
StatusInit ==
    /\ \E a \in StatusArguments, c \in StatusContexts :
           /\ status_arguments = a
           /\ status_context = c
    /\ status_globals \in
           {[task_use_cases |-> None, checkpoint_use_cases |-> None],
            [task_use_cases |-> Some("TaskUseCases"),
             checkpoint_use_cases |-> Some("CheckpointUseCases")]}
    /\ status_locals = NoStatusLocals
    /\ arguments = [goal |-> None, constraints |-> None, wait_for_completion |-> None,
                    wait_timeout_seconds |-> [kind |-> "none", n |-> 0]]
    /\ context = [user_id |-> None, conversation_id |-> None,
                  organization_id |-> None, file_references |-> None]
    /\ settings = [INBOX_CREATE_TASK_WAIT_TIMEOUT_SECONDS |-> MaxTimeoutSetting,
                   INBOX_CREATE_TASK_WAIT_MAX_TIMEOUT_SECONDS |-> MaxTimeoutSetting,
                   INBOX_CREATE_TASK_WAIT_POLL_INTERVAL_SECONDS |-> 0]
    /\ task_use_cases = None
    /\ checkpoint_use_cases = None
    /\ pc = "status_start"
    /\ wait_timeout_seconds = 0
    /\ constraints = {}
    /\ backend = NoCalls
    /\ now = 0
    /\ deadline = 0
    /\ last_task = None
    /\ last_status = "planning"
    /\ last_fetch = None
    /\ delivered = None
    /\ wait_result = None
    /\ pending = None
    /\ result = NoResult
    /\ callers = NoCallers
    /\ shapes = NoShapes
    /\ waits = NoWaits

StatusFinish(r) ==
    /\ result' = r
    /\ pc' = "status_done"

\* line 144 taken as never true
ProvidersMissingNever(ctx, locals) == FALSE

\* line 144 asking for both use cases
ProvidersMissingEither(ctx, locals) ==
    ctx.delegation_service = None
    /\ (locals.task_use_cases = None \/ locals.checkpoint_use_cases = None)

\* line 144: not delegation_service and not task_use_cases
ProvidersMissing(ctx, locals) ==
    ctx.delegation_service = None /\ locals.task_use_cases = None

\* if plan_id: a missing or empty id selects the listing mode
SingleTaskMode(args) == args.plan_id # None /\ args.plan_id[1] # ""

(* execute(), lines 115-130: read the arguments and the context *)
StatusExecute ==
    /\ pc = "status_start"
    /\ status_locals' = [status_locals EXCEPT
           !.task_use_cases = status_context.task_use_cases,
           !.checkpoint_use_cases = status_context.checkpoint_use_cases]
    /\ IF status_context.user_id = None
       THEN StatusFinish(NoUserContext)
       ELSE /\ pc' = "task_provider"
            /\ UNCHANGED result
    /\ UNCHANGED <<callers, shapes, waits, create_vars, backend, status_arguments, status_context, status_globals>>

\* line 132 without the test of the delegation service
NeedsTaskFactoryNoDelegation(ctx, locals) == locals.task_use_cases = None

\* line 132: if not delegation_service and not task_use_cases
NeedsTaskFactory(ctx, locals) ==
    ctx.delegation_service = None /\ locals.task_use_cases = None

\* line 138: if include_checkpoints and not delegation_service
\*           and not checkpoint_use_cases
NeedsCheckpointFactory(args, ctx, locals) ==
    /\ IncludeCheckpoints(args)
    /\ ctx.delegation_service = None
    /\ locals.checkpoint_use_cases = None

\* the provider a read is made on: the delegation service if the context
\* carries one, the use cases otherwise
TaskProvider ==
    IF status_context.delegation_service # None
    THEN status_context.delegation_service[1]
    ELSE status_locals.task_use_cases[1]

CheckpointProvider ==
    IF status_context.delegation_service # None
    THEN status_context.delegation_service[1]
    ELSE status_locals.checkpoint_use_cases[1]

(* lines 132-136, with _get_task_use_cases(), lines 25-29 *)
ResolveTaskUseCases ==
    /\ pc = "task_provider"
    /\ IF NeedsTaskFactory(status_context, status_locals)
       THEN IF status_globals.task_use_cases # None
            THEN /\ status_locals' = [status_locals EXCEPT
                        !.task_use_cases = status_globals.task_use_cases]
                 /\ UNCHANGED status_globals
            ELSE \E built \in BOOLEAN :
                     IF built
                     THEN /\ status_globals' = [status_globals EXCEPT
                                 !.task_use_cases = Some("TaskUseCases")]
                          /\ status_locals' = [status_locals EXCEPT
                                 !.task_use_cases = Some("TaskUseCases"),
                                 !.factory_calls = @ + 1,
                                 !.factories = @ \cup {"task"}]
                     ELSE \* the factory raised: logged, task_use_cases stays None
                          /\ status_locals' = [status_locals EXCEPT
                                 !.factory_calls = @ + 1,
                                 !.factories = @ \cup {"task"}]
                          /\ UNCHANGED status_globals
       ELSE UNCHANGED <<status_globals, status_locals>>
    /\ pc' = "checkpoint_provider"
    /\ UNCHANGED <<callers, shapes, waits, create_vars, backend, result, status_arguments, status_context>>

(* lines 138-148, with _get_checkpoint_use_cases(), lines 32-36 *)
ResolveCheckpointUseCases ==
    /\ pc = "checkpoint_provider"
    /\ IF NeedsCheckpointFactory(status_arguments, status_context, status_locals)
       THEN IF status_globals.checkpoint_use_cases # None
            THEN /\ status_locals' = [status_locals EXCEPT
                        !.checkpoint_use_cases = status_globals.checkpoint_use_cases]
                 /\ UNCHANGED status_globals
            ELSE \E built \in BOOLEAN :
                     IF built
                     THEN /\ status_globals' = [status_globals EXCEPT
                                 !.checkpoint_use_cases = Some("CheckpointUseCases")]
                          /\ status_locals' = [status_locals EXCEPT
                                 !.checkpoint_use_cases = Some("CheckpointUseCases"),
                                 !.factory_calls = @ + 1,
                                 !.factories = @ \cup {"checkpoint"}]
                     ELSE /\ status_locals' = [status_locals EXCEPT
                                 !.factory_calls = @ + 1,
                                 !.factories = @ \cup {"checkpoint"}]
                          /\ UNCHANGED status_globals
       ELSE UNCHANGED <<status_globals, status_locals>>
    /\ IF ProvidersMissing(status_context, status_locals)
       THEN StatusFinish(NoDelegationService)
       ELSE /\ pc' = IF SingleTaskMode(status_arguments) THEN "get_plan" ELSE "list_tasks"
            /\ UNCHANGED result
    /\ UNCHANGED <<callers, shapes, waits, create_vars, backend, status_arguments, status_context>>

(* lines 152-170 and, without checkpoints, 190-195 *)
GetPlan ==
    /\ pc = "get_plan"
    /\ \E outcome \in PlanOutcomes :
           LET plan_id == status_arguments.plan_id[1]
               check == PlanCheck(outcome.plan, plan_id, status_context.user_id[1])
           IN  /\ backend' = Called(
                      [op |-> IF status_context.delegation_service # None
                              THEN "get_plan" ELSE "get_task",
                       via |-> TaskProvider, plan_id |-> plan_id, ok |-> outcome.kind = "return"])
               /\ status_locals' = [status_locals EXCEPT !.plan = Some(outcome)]
               /\ IF outcome.kind = "raise"
                  THEN StatusFinish(StatusFailed(BackendError))
                  ELSE IF check # None
                  THEN StatusFinish(check[1])
                  ELSE IF IncludeCheckpoints(status_arguments)
                  THEN /\ pc' = "plan_checkpoints"
                       /\ UNCHANGED result
                  ELSE StatusFinish(SingleTaskResponse(outcome.plan[1], <<>>))
    /\ UNCHANGED <<callers, shapes, waits, create_vars, status_arguments, status_context, status_globals>>

\* a checkpoint read that resolves the checkpoints it finds
CheckpointSourceResolving(single) ==
    IF status_context.delegation_service # None THEN Some("resolve_checkpoints")
    ELSE IF status_locals.checkpoint_use_cases # None
    THEN Some(IF single THEN "list_pending_for_task" ELSE "list_pending")
    ELSE None

\* lines 174-179 and 244-249: the provider the checkpoints are read from, None
\* when there is none
CheckpointSource(single) ==
    IF status_context.delegation_service # None THEN Some("get_pending_checkpoints")
    ELSE IF status_locals.checkpoint_use_cases # None
    THEN Some(IF single THEN "list_pending_for_task" ELSE "list_pending")
    ELSE None

(* lines 173-195: the pending checkpoints of the requested task *)
PlanCheckpoints ==
    /\ pc = "plan_checkpoints"
    /\ LET plan_id == status_arguments.plan_id[1]
           plan == status_locals.plan[1].plan[1]
           source == CheckpointSource(TRUE)
       IN  IF source = None
           THEN /\ StatusFinish(SingleTaskResponse(plan, <<>>))
                /\ UNCHANGED <<backend, status_locals>>
           ELSE \E outcome \in PendingOutcomes :
                    /\ backend' = Called(
                           [op |-> source[1], via |-> CheckpointProvider,
                            key |-> IF source[1] = "list_pending_for_task"
                                    THEN plan_id ELSE status_context.user_id[1],
                            ok |-> outcome.kind = "return"])
                    /\ status_locals' = [status_locals EXCEPT !.checkpoints = Some(outcome)]
                    /\ IF outcome.kind = "raise"
                       THEN StatusFinish(StatusFailed(BackendError))
                       ELSE StatusFinish(SingleTaskResponse(plan,
                                PlanCheckpointsOf(outcome.list, plan_id)))
    /\ UNCHANGED <<callers, shapes, waits, create_vars, status_arguments, status_context, status_globals>>

(* lines 201-239: the tasks of the user *)
ListTasks ==
    /\ pc = "list_tasks"
    /\ \E outcome \in ListOutcomes :
           /\ backend' = Called(
                  [op |-> IF status_context.delegation_service # None
                          THEN "get_user_plans" ELSE "list_tasks",
                   via |-> TaskProvider, user_id |-> status_context.user_id[1], status |-> None,
                   limit |-> Limit(status_arguments), ok |-> outcome.kind = "return"])
           /\ status_locals' = [status_locals EXCEPT !.active_plans = Some(outcome)]
           /\ IF outcome.kind = "raise"
              THEN StatusFinish(StatusFailed(BackendError))
              ELSE IF IncludeCheckpoints(status_arguments)
              THEN /\ pc' = "list_checkpoints"
                   /\ UNCHANGED result
              ELSE StatusFinish(ListingResponse(outcome.list,
                       IncludeCompleted(status_arguments), FALSE, <<>>))
    /\ UNCHANGED <<callers, shapes, waits, create_vars, status_arguments, status_context, status_globals>>

(* lines 243-285: the pending checkpoints of the user *)
ListCheckpoints ==
    /\ pc = "list_checkpoints"
    /\ LET active_plans == status_locals.active_plans[1].list
           source == CheckpointSource(FALSE)
       IN  IF source = None
           THEN /\ StatusFinish(ListingResponse(active_plans,
                       IncludeCompleted(status_arguments), TRUE, <<>>))
                /\ UNCHANGED <<backend, status_locals>>
           ELSE \E outcome \in PendingOutcomes :
                    /\ backend' = Called([op |-> source[1], via |-> CheckpointProvider,
                                          key |-> status_context.user_id[1],
                                          ok |-> outcome.kind = "return"])
                    /\ status_locals' = [status_locals EXCEPT !.checkpoints = Some(outcome)]
                    /\ IF outcome.kind = "raise"
                       THEN StatusFinish(StatusFailed(BackendError))
                       ELSE StatusFinish(ListingResponse(active_plans,
                                IncludeCompleted(status_arguments), TRUE, outcome.list))
    /\ UNCHANGED <<callers, shapes, waits, create_vars, status_arguments, status_context, status_globals>>

-----------------------------------------------------------------------------
(* Specifications *)

Next ==
    \/ Execute
    \/ GetTaskUseCases
    \/ CreateTask
    \/ LinkConversation
    \/ WaitFetch
    \/ WaitSleep
    \/ GetCheckpointUseCases
    \/ ListPendingForTask

Spec == Init /\ [][Next]_vars

\* every awaited call returns and every sleep ends: the event loop runs the
\* coroutine on
FairSpec == Spec /\ WF_vars(Next)

StatusNext ==
    \/ StatusExecute
    \/ ResolveTaskUseCases
    \/ ResolveCheckpointUseCases
    \/ GetPlan
    \/ PlanCheckpoints
    \/ ListTasks
    \/ ListCheckpoints

\* one call of get_task_status
StatusSpec == StatusInit /\ [][StatusNext]_vars

\* one call of either tool
ToolsInit == Init \/ StatusInit

ToolsNext == Next \/ StatusNext

ToolsSpec == ToolsInit /\ [][ToolsNext]_vars

-----------------------------------------------------------------------------
(* The progress of a snapshot, as _summarize_task and _format_plan report it:
   the snapshot ranges over every list of at most MaxSteps steps and over
   what its own get_progress_percentage() returns. *)

MaxSteps == 3

\* task.steps: every list of at most MaxSteps steps
StepLists ==
    LET statuses == {EnumMember("done"), PlainValue("completed"),
                     EnumMember("failed"), EnumMember("pending")}
    IN  UNION {[1 .. n -> {Step(st) : st \in statuses}] : n \in 0 .. MaxSteps}

\* get_progress_percentage(): missing or raising, or a number of hundredths
OwnPercentages == {None, Some(-100), Some(0), Some(5000), Some(15000)}

ProgressInit ==
    /\ \E steps \in StepLists, own_pct \in OwnPercentages :
           last_task = Some(Snapshot(EnumMember("executing"), steps, own_pct))
    /\ arguments = [goal |-> Some("Research X"), constraints |-> None,
                    wait_for_completion |-> None,
                    wait_timeout_seconds |-> [kind |-> "none", n |-> 0]]
    /\ settings = [INBOX_CREATE_TASK_WAIT_TIMEOUT_SECONDS |-> 0,
                   INBOX_CREATE_TASK_WAIT_MAX_TIMEOUT_SECONDS |-> 0,
                   INBOX_CREATE_TASK_WAIT_POLL_INTERVAL_SECONDS |-> 0]
    /\ context = [user_id |-> None, conversation_id |-> None,
                  organization_id |-> None, file_references |-> None]
    /\ StatusIdle
    /\ task_use_cases = None
    /\ checkpoint_use_cases = None
    /\ pc = "progress"
    /\ wait_timeout_seconds = 0
    /\ constraints = {}
    /\ backend = NoCalls
    /\ now = 0
    /\ deadline = 0
    /\ last_status = "executing"
    /\ last_fetch = None
    /\ delivered = None
    /\ wait_result = None
    /\ pending = None
    /\ result = NoResult
    /\ callers = NoCallers
    /\ shapes = NoShapes
    /\ waits = NoWaits

\* create_task.py line 267: base_data.update(_summarize_task(observed_task))
Summarize ==
    /\ pc = "progress"
    /\ result' = ToolResult(TRUE, SummarizeTask(last_task[1]), None, None)
    /\ pc' = "summarized"
    /\ UNCHANGED <<callers, shapes, waits, create_vars, backend, status_vars, callers>>

\* get_task_status.py line 170: result_data = self._format_plan(plan)
FormatTask ==
    /\ pc = "progress"
    /\ result' = ToolResult(TRUE, FormatPlan(Plan(TaskId, "user-123", "Research X",
                                                  last_task[1])), None, None)
    /\ pc' = "formatted"
    /\ UNCHANGED <<callers, shapes, waits, create_vars, backend, status_vars, callers>>

ProgressSpec == ProgressInit /\ [][Summarize \/ FormatTask]_vars

-----------------------------------------------------------------------------
(* _resolve_wait_timeout on its own *)

\* the timeouts, requested and configured, the resolution is explored with
TimeoutValues == -MaxMagnitude .. MaxMagnitude

\* a call of _resolve_wait_timeout: any requested value, any configured default
\* and maximum
TimeoutInit ==
    /\ \E requested \in {[kind |-> k, n |-> 0] : k \in {"none", "badstr", "list", "inf"}}
                        \cup {[kind |-> k, n |-> n] :
                                k \in {"int", "numstr"}, n \in TimeoutValues}
                        \cup {[kind |-> "float", n |-> 2 * n + 1] : n \in TimeoutValues}
                        \cup {[kind |-> "bool", n |-> n] : n \in {0, 1}},
          default_timeout \in TimeoutValues, max_timeout \in TimeoutValues :
           /\ arguments = [goal |-> Some("Research X"), constraints |-> None,
                           wait_for_completion |-> None,
                           wait_timeout_seconds |-> requested]
           /\ settings = [INBOX_CREATE_TASK_WAIT_TIMEOUT_SECONDS |-> default_timeout,
                          INBOX_CREATE_TASK_WAIT_MAX_TIMEOUT_SECONDS |-> max_timeout,
                          INBOX_CREATE_TASK_WAIT_POLL_INTERVAL_SECONDS |-> 0]
    /\ context = [user_id |-> None, conversation_id |-> None,
                  organization_id |-> None, file_references |-> None]
    /\ StatusIdle
    /\ task_use_cases = None
    /\ checkpoint_use_cases = None
    /\ pc = "resolve"
    /\ wait_timeout_seconds = 0
    /\ constraints = {}
    /\ backend = NoCalls
    /\ now = 0
    /\ deadline = 0
    /\ last_task = None
    /\ last_status = "planning"
    /\ last_fetch = None
    /\ delivered = None
    /\ wait_result = None
    /\ pending = None
    /\ result = NoResult
    /\ callers = NoCallers
    /\ shapes = NoShapes
    /\ waits = NoWaits

(* line 209: wait_timeout_seconds = _resolve_wait_timeout(arguments) *)
ResolveTimeout ==
    /\ pc = "resolve"
    /\ IF ResolveRaises(arguments)
       THEN /\ pc' = "raised"
            /\ UNCHANGED wait_timeout_seconds
       ELSE /\ wait_timeout_seconds' = ResolveWaitTimeout(arguments, settings)
            /\ pc' = "resolved"
    /\ UNCHANGED <<arguments, context, settings, task_use_cases, checkpoint_use_cases,
                   constraints, backend, now, deadline, last_task, last_status,
                   last_fetch, delivered, wait_result, pending, result, status_vars, callers,
                   shapes, waits>>

TimeoutSpec == TimeoutInit /\ [][ResolveTimeout]_vars

-----------------------------------------------------------------------------
(* The memoized getters of the two modules, called by several calls of the
   tools: _get_task_use_cases() and _get_checkpoint_use_cases() of
   create_task.py (lines 27-38) and of get_task_status.py (lines 25-36).  Each
   call reads the module global, awaits the factory if it is None, assigns
   the global and returns it; other calls run during the await. *)

MaxCallers == 3

Tools == {"create_task", "get_task_status"}

Kinds == {"task", "checkpoint"}

\* the module global of a tool's module for a provider kind
Cache(tool, kind) ==
    IF tool = "create_task"
    THEN (IF kind = "task" THEN task_use_cases ELSE checkpoint_use_cases)
    ELSE (IF kind = "task" THEN status_globals.task_use_cases
          ELSE status_globals.checkpoint_use_cases)

\* the provider a construction returns: a new object each time, the n-th
\* one being n
Constructed(n) == Some(n)

\* the events of the log that are successful constructions
Built == {i \in 1 .. Len(callers.log) : callers.log[i].ev = "built"}

\* the callers awaiting a factory
Building == {c \in 1 .. MaxCallers : callers.calls[c].pc = "building"}

MemoInit ==
    /\ callers = [calls |-> [c \in 1 .. MaxCallers |->
                                [pc |-> "idle", tool |-> "create_task",
                                 kind |-> "task", got |-> None]],
                  log |-> <<>>, overlapped |-> FALSE]
    /\ arguments = [goal |-> None, constraints |-> None, wait_for_completion |-> None,
                    wait_timeout_seconds |-> [kind |-> "none", n |-> 0]]
    /\ context = [user_id |-> None, conversation_id |-> None,
                  organization_id |-> None, file_references |-> None]
    /\ settings = [INBOX_CREATE_TASK_WAIT_TIMEOUT_SECONDS |-> 0,
                   INBOX_CREATE_TASK_WAIT_MAX_TIMEOUT_SECONDS |-> 0,
                   INBOX_CREATE_TASK_WAIT_POLL_INTERVAL_SECONDS |-> 0]
    /\ StatusIdle
    /\ task_use_cases = None
    /\ checkpoint_use_cases = None
    /\ pc = "memo"
    /\ shapes = NoShapes
    /\ waits = NoWaits
    /\ wait_timeout_seconds = 0
    /\ constraints = {}
    /\ backend = NoCalls
    /\ now = 0
    /\ deadline = 0
    /\ last_task = None
    /\ last_status = "planning"
    /\ last_fetch = None
    /\ delivered = None
    /\ wait_result = None
    /\ pending = None
    /\ result = NoResult

\* what the memoized getters leave alone
memo_frame == <<arguments, context, settings, pc, wait_timeout_seconds, constraints,
                backend, now, deadline, last_task, last_status, last_fetch,
                delivered, wait_result, pending, result, status_arguments,
                status_context, status_locals, shapes, waits>>

(* if _task_use_cases is None: ... await provider_get_task_use_cases()
   (create_task.py lines 29-30, 36-37; get_task_status.py lines 27-28, 34-35):
   the test of the global, and the return of a global that is set *)
GetUseCases(c) ==
    /\ pc = "memo"
    /\ callers.calls[c].pc = "idle"
    \* the calls are numbered in the order they start
    /\ \A d \in 1 .. c - 1 : callers.calls[d].pc # "idle"
    /\ \E tool \in Tools, kind \in Kinds :
           IF Cache(tool, kind) # None
           THEN callers' = [callers EXCEPT
                    !.calls[c] = [pc |-> "returned", tool |-> tool, kind |-> kind,
                                  got |-> Cache(tool, kind)],
                    !.overlapped = @ \/ Building # {}]
           ELSE callers' = [callers EXCEPT
                    !.calls[c] = [pc |-> "building", tool |-> tool, kind |-> kind,
                                  got |-> None],
                    !.log = Append(@, [ev |-> "invoke", tool |-> tool, kind |-> kind,
                                       caller |-> c, provider |-> None]),
                    !.overlapped = @ \/ Building # {}]
    /\ UNCHANGED <<memo_frame, task_use_cases, checkpoint_use_cases, status_globals>>

(* the factory returns or raises: _task_use_cases = await ...; return
   _task_use_cases (create_task.py lines 30-31, 37-38; get_task_status.py
   lines 28-29, 35-36) *)
FactoryReturns(c) ==
    /\ pc = "memo"
    /\ callers.calls[c].pc = "building"
    /\ LET tool == callers.calls[c].tool
           kind == callers.calls[c].kind
           provider == Constructed(Cardinality(Built) + 1)
       IN  \E ok \in BOOLEAN :
               IF ok
               THEN /\ task_use_cases' =
                          IF tool = "create_task" /\ kind = "task"
                          THEN provider ELSE task_use_cases
                    /\ checkpoint_use_cases' =
                          IF tool = "create_task" /\ kind = "checkpoint"
                          THEN provider ELSE checkpoint_use_cases
                    /\ status_globals' =
                          IF tool = "get_task_status"
                          THEN (IF kind = "task"
                                THEN [status_globals EXCEPT !.task_use_cases = provider]
                                ELSE [status_globals EXCEPT
                                         !.checkpoint_use_cases = provider])
                          ELSE status_globals
                    /\ callers' = [callers EXCEPT
                           !.calls[c].pc = "returned",
                           !.calls[c].got = provider,
                           !.log = Append(@, [ev |-> "built", tool |-> tool,
                                              kind |-> kind, caller |-> c,
                                              provider |-> provider])]
               ELSE /\ callers' = [callers EXCEPT
                           !.calls[c].pc = "failed",
                           !.log = Append(@, [ev |-> "raised", tool |-> tool,
                                              kind |-> kind, caller |-> c,
                                              provider |-> None])]
                    /\ UNCHANGED <<task_use_cases, checkpoint_use_cases, status_globals>>
    /\ UNCHANGED memo_frame

MemoNext == \E c \in 1 .. MaxCallers : GetUseCases(c) \/ FactoryReturns(c)

MemoSpec == MemoInit /\ [][MemoNext]_vars

-----------------------------------------------------------------------------
(* get_task_status asked twice about one backend content: through the       *)
(* delegation service, then through the task and checkpoint use cases       *)

\* what the backend holds: the task with the requested id, the tasks of the
\* requesting user, the pending checkpoints of every user, and the owner of
\* the tasks other than the requested one
Contents ==
    [plan : {o \in PlanOutcomes : o.kind = "return"},
     listing : {o \in ListOutcomes : o.kind = "return" /\ Len(o.list) \in {0, MaxListed}},
     pending : PendingLists,
     other_owner : {"user-123", "user-456"}]

\* what a provider method answers on a backend content: get_plan and get_task
\* the task with the id, get_user_plans and list_tasks the tasks of the user,
\* get_pending_checkpoints and list_pending the pending checkpoints of the
\* user, list_pending_for_task those of the task; a pending checkpoint
\* belongs to the owner of its task
ProviderAnswer(content, op, key) ==
    LET CheckpointOwner(checkpoint) ==
            IF CheckpointPlanId(checkpoint) = Some(TaskId) /\ content.plan.plan # None
            THEN content.plan.plan[1].user_id
            ELSE content.other_owner
    IN
    CASE op \in {"get_plan", "get_task"} -> content.plan
      [] op \in {"get_user_plans", "list_tasks"} -> content.listing
      [] op \in {"get_pending_checkpoints", "list_pending"} ->
             [kind |-> "return",
              list |-> SelectSeq(content.pending,
                                 LAMBDA c : CheckpointOwner(c) = key)]
      [] op = "list_pending_for_task" ->
             [kind |-> "return",
              list |-> SelectSeq(content.pending,
                                 LAMBDA c : CheckpointPlanId(c) = Some(key))]

\* every read of the call under way was answered from the backend content
AnsweredFromContent ==
    LET user_id == status_context.user_id[1]
        single == SingleTaskMode(status_arguments)
    IN  /\ status_locals.plan # None =>
               status_locals.plan[1]
                   = ProviderAnswer(shapes.content[1], "get_plan",
                                    status_arguments.plan_id[1])
        /\ status_locals.active_plans # None =>
               status_locals.active_plans[1]
                   = ProviderAnswer(shapes.content[1], "get_user_plans", user_id)
        /\ status_locals.checkpoints # None =>
               status_locals.checkpoints[1]
                   = ProviderAnswer(shapes.content[1], CheckpointSource(single)[1],
                                    IF CheckpointSource(single)[1] = "list_pending_for_task"
                                    THEN status_arguments.plan_id[1] ELSE user_id)

ShapesInit ==
    /\ \E a \in StatusArguments, content \in Contents :
           /\ status_arguments = a
           /\ shapes = [content |-> Some(content), first |-> None, run |-> 1]
    /\ status_context =
           [user_id |-> Some("user-123"),
            delegation_service |-> Some("DelegationService"),
            task_use_cases |-> None, checkpoint_use_cases |-> None]
    /\ status_globals = [task_use_cases |-> None, checkpoint_use_cases |-> None]
    /\ status_locals = NoStatusLocals
    /\ arguments = [goal |-> None, constraints |-> None, wait_for_completion |-> None,
                    wait_timeout_seconds |-> [kind |-> "none", n |-> 0]]
    /\ context = [user_id |-> None, conversation_id |-> None,
                  organization_id |-> None, file_references |-> None]
    /\ settings = [INBOX_CREATE_TASK_WAIT_TIMEOUT_SECONDS |-> MaxTimeoutSetting,
                   INBOX_CREATE_TASK_WAIT_MAX_TIMEOUT_SECONDS |-> MaxTimeoutSetting,
                   INBOX_CREATE_TASK_WAIT_POLL_INTERVAL_SECONDS |-> 0]
    /\ task_use_cases = None
    /\ checkpoint_use_cases = None
    /\ pc = "status_start"
    /\ wait_timeout_seconds = 0
    /\ constraints = {}
    /\ backend = NoCalls
    /\ now = 0
    /\ deadline = 0
    /\ last_task = None
    /\ last_status = "planning"
    /\ last_fetch = None
    /\ delivered = None
    /\ wait_result = None
    /\ pending = None
    /\ result = NoResult
    /\ callers = NoCallers
    /\ waits = NoWaits

\* the same call again: the same arguments and user, the backend unchanged,
\* the context carrying the use cases in place of the delegation service
SecondCall ==
    /\ pc = "status_done"
    /\ shapes.run = 1
    /\ shapes' = [shapes EXCEPT !.first = Some(result), !.run = 2]
    /\ status_context' =
           [user_id |-> status_context.user_id, delegation_service |-> None,
            task_use_cases |-> Some("ContextTaskUseCases"),
            checkpoint_use_cases |-> Some("ContextCheckpointUseCases")]
    /\ status_locals' = NoStatusLocals
    /\ result' = NoResult
    /\ pc' = "status_start"
    /\ UNCHANGED <<callers, waits, create_vars, backend, status_arguments, status_globals>>

ShapesNext ==
    \/ StatusNext /\ AnsweredFromContent'
    \/ SecondCall

ShapesSpec == ShapesInit /\ [][ShapesNext]_vars

-----------------------------------------------------------------------------
(* Two create_task calls waiting at once: _wait_for_terminal_status, lines  *)
(* 109-141, run by two coroutines of one event loop on two task ids         *)

\* the two calls
Waiters == {1, 2}

\* what get_task may do for the task of one call: raise, return None, or
\* return a snapshot of that task
ConcurrentOutcomes(task_id) ==
    {[kind |-> "raise", task |-> None], [kind |-> "return", task |-> None]}
    \cup {[kind |-> "return", task |-> Some(Plan(task_id, "user-123", "Research X", t))] :
             t \in {Snapshot(PlainValue("EXECUTING"), <<Step(EnumMember("running"))>>, None),
                    Snapshot(EnumMember("completed"), <<Step(EnumMember("done"))>>, None)}}

\* deadline, last_task and last_status kept in one place for every call, as
\* module globals would be
FrameOfFirstCall(w) == waits[1]

\* lines 116-119: deadline, last_task and last_status are locals of the call
Frame(w) == waits[w]

\* both calls have entered _wait_for_terminal_status (lines 116-119), each
\* with its own task id and timeout
WaitsInit ==
    /\ \E timeouts \in [Waiters -> {0, Second}] :
           waits = [w \in Waiters |->
                       [task_id |-> <<"task-1", "task-2">>[w],
                        deadline |-> 0 + Max(0, timeouts[w]),
                        last_task |-> None, last_status |-> "planning",
                        pc |-> "fetch", wake |-> 0,
                        last_fetch |-> None, delivered |-> None, returned |-> None]]
    /\ arguments = [goal |-> None, constraints |-> None, wait_for_completion |-> None,
                    wait_timeout_seconds |-> [kind |-> "none", n |-> 0]]
    /\ context = [user_id |-> None, conversation_id |-> None,
                  organization_id |-> None, file_references |-> None]
    /\ settings = [INBOX_CREATE_TASK_WAIT_TIMEOUT_SECONDS |-> 0,
                   INBOX_CREATE_TASK_WAIT_MAX_TIMEOUT_SECONDS |-> 0,
                   INBOX_CREATE_TASK_WAIT_POLL_INTERVAL_SECONDS |-> Second \div 2]
    /\ StatusIdle
    /\ task_use_cases = None
    /\ checkpoint_use_cases = None
    /\ pc = "waits"
    /\ wait_timeout_seconds = 0
    /\ constraints = {}
    /\ backend = NoCalls
    /\ now = 0
    /\ deadline = 0
    /\ last_task = None
    /\ last_status = "planning"
    /\ last_fetch = None
    /\ delivered = None
    /\ wait_result = None
    /\ pending = None
    /\ result = NoResult
    /\ callers = NoCallers
    /\ shapes = NoShapes

\* what the concurrent waits leave alone
waits_frame == <<arguments, context, settings, task_use_cases, checkpoint_use_cases,
                 pc, wait_timeout_seconds, constraints, backend, deadline, last_task,
                 last_status, last_fetch, delivered, wait_result, pending, result,
                 status_vars, callers, shapes>>

(* lines 121-141 of one call: get_task answers, the status and the deadline
   are tested, and the call returns or goes to sleep *)
ConcurrentFetch(w) ==
    /\ pc = "waits"
    /\ waits[w].pc = "fetch"
    /\ \E outcome \in ConcurrentOutcomes(waits[w].task_id) :
           LET task == FetchedTask(outcome)
               new_task == ObservedTask(task, Frame(w).last_task)
               new_status == ObservedStatus(task, Frame(w).last_status)
               outcome_of_wait == WaitOutcome(task, new_status, now, Frame(w).deadline)
           IN  waits' = [waits EXCEPT
                   ![w].last_task = new_task,
                   ![w].last_status = new_status,
                   ![w].last_fetch = Some([kind |-> outcome.kind, task |-> outcome.task,
                                           at |-> now]),
                   ![w].delivered = IF task # None THEN task ELSE @,
                   ![w].returned =
                       IF outcome_of_wait = "terminal"
                       THEN Some([task |-> task, status |-> new_status,
                                  timed_out |-> FALSE])
                       ELSE IF outcome_of_wait = "timed_out"
                       THEN Some([task |-> new_task, status |-> new_status,
                                  timed_out |-> TRUE])
                       ELSE None,
                   ![w].wake =
                       IF outcome_of_wait = "sleep"
                       THEN now + Max(0, SleepArgument(PollInterval(settings),
                                                       Frame(w).deadline - now))
                       ELSE @,
                   ![w].pc = IF outcome_of_wait = "sleep" THEN "sleeping" ELSE "returned"]
    /\ UNCHANGED <<waits_frame, now>>

\* lines 140-141: the sleep of one call is over and its loop goes on
ConcurrentWake(w) ==
    /\ pc = "waits"
    /\ waits[w].pc = "sleeping"
    /\ now >= waits[w].wake
    /\ waits' = [waits EXCEPT ![w].pc = "fetch"]
    /\ UNCHANGED <<waits_frame, now>>

\* the clock of the event loop goes on while a call sleeps or awaits get_task:
\* to the end of a sleep, or by the half of a poll interval a get_task takes
TimePasses ==
    /\ pc = "waits"
    /\ \/ \E w \in Waiters :
              /\ waits[w].pc = "sleeping"
              /\ waits[w].wake > now
              /\ now' = waits[w].wake
       \/ /\ \E w \in Waiters : waits[w].pc = "fetch" /\ now < waits[w].deadline
          /\ now' = now + PollInterval(settings) \div 2
    /\ UNCHANGED <<waits_frame, waits>>

WaitsNext ==
    \/ \E w \in Waiters : ConcurrentFetch(w)
    \/ \E w \in Waiters : ConcurrentWake(w)
    \/ TimePasses

WaitsSpec == WaitsInit /\ [][WaitsNext]_vars

-----------------------------------------------------------------------------
(* Vocabulary of the properties *)

\* the wait has returned to execute()
Returned == wait_result # None

\* the start of the wait on the monotonic clock
WaitStart == deadline - Max(0, wait_timeout_seconds * Second)

\* the timeout of the wait, in ticks
TimeoutTicks == Max(0, wait_timeout_seconds * Second)

\* the latest get_task call returned a snapshot with a terminal or checkpoint
\* status, strictly before the deadline
TerminalFetchBeforeDeadline ==
    /\ last_fetch # None
    /\ last_fetch[1].kind = "return"
    /\ last_fetch[1].task # None
    /\ StatusValue(last_fetch[1].task[1].status)
           \in {"completed", "failed", "cancelled", "checkpoint"}
    /\ last_fetch[1].at < deadline

\* the latest get_task call raised, strictly before the deadline
FailedFetchBeforeDeadline ==
    /\ last_fetch # None
    /\ last_fetch[1].kind = "raise"
    /\ last_fetch[1].at < deadline

\* the canonical status of the most recent snapshot the backend returned
LastObservedStatus ==
    IF delivered = None THEN "planning" ELSE StatusValue(delivered[1].status)

\* steps of a snapshot whose canonical status is one of `wanted`
StepsIn(task, wanted) ==
    Cardinality({i \in 1 .. Len(task.steps) : StatusValue(task.steps[i].status) \in wanted})

Linked ==
    \E i \in 1 .. Len(backend.calls) :
        backend.calls[i].op = "link_conversation" /\ backend.calls[i].ok

-----------------------------------------------------------------------------
(* Properties *)

\* C1: a get_task call that returns, strictly before the deadline, a snapshot
\* whose canonical status is completed, failed, cancelled or checkpoint ends
\* the wait on that call with that snapshot, that status and timed_out = FALSE,
\* and once the wait has returned no further get_task call is issued.
C1_EarlyReturnOnTerminal ==
    /\ [](TerminalFetchBeforeDeadline =>
            /\ wait_result = Some([task |-> last_fetch[1].task,
                                   status |-> StatusValue(last_fetch[1].task[1].status),
                                   timed_out |-> FALSE])
            /\ pc \notin {"fetch", "sleep"}
            /\ backend.get_task = last_fetch[1].call_no)
    /\ [][Returned => backend'.get_task = backend.get_task]_vars

C1_Witness ==
    /\ TerminalFetchBeforeDeadline
    /\ last_fetch[1].call_no >= 2
    /\ Returned
    /\ pc = "done"

\* C2: when every get_task call of a wait raised, the wait does not raise: it
\* goes on while the deadline has not passed and returns, once the deadline has
\* passed, no snapshot, the status "planning" and timed_out = TRUE.
C2_AllFetchesFail ==
    (backend.get_task > 0 /\ backend.failures = "all") =>
        /\ pc \in {"fetch", "sleep", "done"}
        /\ pc = "sleep" => now < deadline
        /\ ~Returned => pc # "done"
        /\ Returned =>
            /\ wait_result = Some([task |-> None, status |-> "planning",
                                   timed_out |-> TRUE])
            /\ now >= deadline
            /\ pc = "done"
            /\ result.success

C2_Witness ==
    /\ backend.get_task >= 2
    /\ backend.failures = "all"
    /\ Returned
    /\ wait_timeout_seconds > 0

\* C3: a get_task call that raises before the deadline does not end the wait:
\* the wait sleeps and then fetches again, and a later call that returns a
\* terminal or checkpoint status before the deadline ends the wait with that
\* status and timed_out = FALSE.
C3_FailureIsRetried ==
    /\ [](FailedFetchBeforeDeadline =>
            /\ pc \in {"sleep", "fetch"}
            /\ ~Returned
            /\ result = NoResult
            /\ backend.get_task < MaxFetches)
    /\ [][pc = "sleep" => pc' = "fetch"]_vars
    /\ []((backend.failures = "some" /\ TerminalFetchBeforeDeadline) =>
            /\ Returned
            /\ wait_result[1].status = StatusValue(last_fetch[1].task[1].status)
            /\ ~wait_result[1].timed_out)

C3_Witness ==
    /\ backend.failures = "some"
    /\ TerminalFetchBeforeDeadline
    /\ Returned
    /\ ~wait_result[1].timed_out

C5_WaitTerminates == (pc \in {"fetch", "sleep"}) ~> Returned

C5_Witness ==
    /\ Returned
    /\ settings.INBOX_CREATE_TASK_WAIT_POLL_INTERVAL_SECONDS <= 0
    /\ wait_timeout_seconds > 0
    /\ wait_result[1].timed_out

C7_NoWaitNoPolling ==
    arguments.wait_for_completion = Some(FALSE) =>
        /\ backend.get_task = 0
        /\ ~Returned
        /\ Linked =>
            /\ pc = "done"
            /\ result.success
            /\ result.data["status"] = "planning"
            /\ result.data["timed_out"] = FALSE
            /\ result.data["task_id"] = TaskId

C7_Witness ==
    /\ arguments.wait_for_completion = Some(FALSE)
    /\ Linked
    /\ pc = "done"
    /\ result.success

\* C8: when the wait times out the response is success with status "running",
\* current_status the last observed canonical status, timed_out = TRUE and
\* wait_timeout_seconds the resolved timeout.
C8_TimeoutResponse ==
    (Returned /\ wait_result[1].timed_out) =>
        /\ pc = "done"
        /\ result.success
        /\ result.data["status"] = "running"
        /\ result.data["current_status"] = LastObservedStatus
        /\ result.data["timed_out"] = TRUE
        /\ result.data["wait_timeout_seconds"] = ResolveWaitTimeout(arguments, settings)

C8_Witness ==
    /\ Returned
    /\ wait_result[1].timed_out
    /\ ResolveWaitTimeout(arguments, settings) = 0
    /\ delivered # None
    /\ StatusValue(delivered[1].status) = "planning"
    /\ result.data["status"] = "running"
    /\ result.data["current_status"] = "planning"

\* C9: when the wait observes completed, failed or cancelled before it times
\* out, the response is success with that status, timed_out = FALSE and the
\* step counts of the observed snapshot.
C9_TerminalResponse ==
    (Returned /\ ~wait_result[1].timed_out
        /\ wait_result[1].status \in {"completed", "failed", "cancelled"}) =>
        /\ pc = "done"
        /\ result.success
        /\ result.data["status"] = StatusValue(delivered[1].status)
        /\ result.data["timed_out"] = FALSE
        /\ result.data["steps_total"] = Len(delivered[1].steps)
        /\ result.data["steps_completed"] = StepsIn(delivered[1], {"done", "completed"})

C9_Witness ==
    /\ Returned
    /\ ~wait_result[1].timed_out
    /\ pc = "done"
    /\ result.data["status"] = "completed"
    /\ result.data["steps_total"] = 2
    /\ result.data["steps_completed"] = 2

\* the wait observed the status "checkpoint" and execute() has answered
CheckpointAnswered ==
    /\ Returned
    /\ ~wait_result[1].timed_out
    /\ wait_result[1].status = "checkpoint"
    /\ pc = "done"

\* C10 as stated: when the wait observes "checkpoint" the response is success
\* with status "checkpoint" and the serialized first pending checkpoint.
C10_CheckpointAlwaysAttached ==
    CheckpointAnswered =>
        /\ result.success
        /\ result.data["status"] = "checkpoint"
        /\ pending # None
        /\ pending[1].kind = "return"
        /\ pending[1].list # <<>>
        /\ ~SerializeRaises(pending[1].list[1])
        /\ result.data["checkpoint"] = Some(SerializeCheckpoint(pending[1].list[1]))

\* C10 as amended: when the wait observes "checkpoint", the response is success
\* with status "checkpoint" and the serialized first pending checkpoint if
\* list_pending_for_task returns a list whose first element has a plan_id;
\* success with a null checkpoint if it returns an empty list; and a failure
\* if the checkpoint provider cannot be built, the call raises or the first
\* element has no plan_id.
C10_CheckpointResponse ==
    CheckpointAnswered =>
        IF pending # None /\ pending[1].kind = "return" /\ pending[1].list # <<>>
           /\ ~SerializeRaises(pending[1].list[1])
        THEN /\ result.success
             /\ result.data["status"] = "checkpoint"
             /\ result.data["checkpoint"] = Some(SerializeCheckpoint(pending[1].list[1]))
             /\ result.data["checkpoint"][1].step_id = pending[1].list[1].step_id
             /\ result.data["checkpoint"][1].checkpoint_type
                    = (IF pending[1].list[1].checkpoint_type.value \in {None, Some("")}
                       THEN "approval"
                       ELSE pending[1].list[1].checkpoint_type.value[1])
        ELSE IF pending # None /\ pending[1].kind = "return" /\ pending[1].list = <<>>
        THEN /\ result.success
             /\ result.data["status"] = "checkpoint"
             /\ result.data["checkpoint"] = None
        ELSE ~result.success

C10_Witness ==
    /\ CheckpointAnswered
    /\ result.success
    /\ pending[1].kind = "return"
    /\ Len(pending[1].list) = 2
    /\ result.data["checkpoint"] # None
    /\ result.data["checkpoint"][1].step_id = "step-input"
    /\ result.data["checkpoint"][1].checkpoint_type = "input"

\* execute() has answered with success
Succeeded == pc = "done" /\ result.success

\* the calls of the log with the operation `op`
CallsOf(op) == {i \in 1 .. Len(backend.calls) : backend.calls[i].op = op}

\* C11: a create_task execution that returns success has made exactly one
\* create_task call (auto_start on, metadata with the source marker and the
\* conversation id) and after it exactly one link_conversation call with the
\* created task's id and the context's conversation id; no get_task poll is
\* issued and no success is returned before that link call.
C11_CreateThenLinkOnce ==
    /\ Succeeded =>
        /\ CallsOf("create_task") = {1}
        /\ CallsOf("link_conversation") = {2}
        /\ backend.calls[1].auto_start
        /\ backend.calls[1].metadata.source = "inbox_chat"
        /\ backend.calls[1].metadata.conversation_id = context.conversation_id[1]
        /\ backend.calls[2].task_id = TaskId
        /\ backend.calls[2].conversation_id = context.conversation_id[1]
    /\ backend.get_task > 0 =>
        /\ Len(backend.calls) >= 2
        /\ backend.calls[2].op = "link_conversation"
        /\ backend.calls[2].ok

C11_Witness ==
    /\ Succeeded
    /\ backend.get_task >= 2
    /\ CallsOf("link_conversation") = {2}
    /\ Len(backend.calls) = 3

\* the summary fields of a response
SummaryFields == {"steps_total", "steps_completed", "steps_failed", "progress_percentage"}

\* C12: every successful response carries task_id, goal and timed_out, and
\* carries steps_total, steps_completed, steps_failed and progress_percentage
\* exactly when a get_task call of the wait returned a snapshot (none of them
\* otherwise).
C12_ResponseFields ==
    Succeeded =>
        /\ {"task_id", "goal", "timed_out"} \subseteq DOMAIN result.data
        /\ result.data["task_id"] = TaskId
        /\ result.data["goal"] = arguments.goal[1]
        /\ result.data["timed_out"] \in BOOLEAN
        /\ IF delivered # None
           THEN SummaryFields \subseteq DOMAIN result.data
           ELSE SummaryFields \cap DOMAIN result.data = {}

C12_Witness ==
    /\ Succeeded
    /\ delivered # None
    /\ last_fetch[1].kind = "raise"
    /\ result.data["timed_out"]
    /\ result.data["steps_total"] = 2

-----------------------------------------------------------------------------
(* Vocabulary of the get_task_status properties *)

\* the provider has answered the fetch of the requested task
PlanFetched == status_locals.plan # None /\ status_locals.plan[1].kind = "return"

\* the provider returned a task owned by a user other than the requesting one
ForeignPlanFetched ==
    /\ PlanFetched
    /\ status_locals.plan[1].plan # None
    /\ status_locals.plan[1].plan[1].user_id # status_context.user_id[1]

\* the provider returned no task for the requested id
NoPlanFetched == PlanFetched /\ status_locals.plan[1].plan = None

\* the strings a result's error is made of
ErrorParts(r) == IF r.error = None THEN {} ELSE {r.error[1][i] : i \in 1 .. Len(r.error[1])}

\* the listing mode has answered with success
ListingAnswered ==
    /\ pc = "status_done"
    /\ result.success
    /\ status_locals.active_plans # None

\* the tasks the listing call fetched, and the places of those with a status
\* among `wanted`
Fetched == status_locals.active_plans[1].list

FetchedWith(wanted) == {i \in 1 .. Len(Fetched) : StatusValue(Fetched[i].status) \in wanted}

-----------------------------------------------------------------------------
(* Properties of get_task_status *)

\* C13: when the task fetched for plan_id is owned by another user, the call
\* returns success = FALSE with the fixed message "Access denied to this task"
\* and no data and no message: nothing of the task is in the result, whatever
\* the other arguments and the providers are, and no checkpoint is read.
C13_ForeignTaskDenied ==
    ForeignPlanFetched =>
        /\ pc = "status_done"
        /\ ~result.success
        /\ result.error = Some(<<"Access denied to this task">>)
        /\ result.data = None
        /\ result.message = None
        /\ Len(backend.calls) = 1

C13_Witness ==
    /\ ForeignPlanFetched
    /\ pc = "status_done"
    /\ status_arguments.include_checkpoints = Some(TRUE)
    /\ status_arguments.include_completed = Some(TRUE)
    /\ status_context.delegation_service # None

\* C14 as stated: the result for a task id is the same whether a task with that
\* id owned by another user exists or not: when the provider returns another
\* user's task, the requester gets the result it gets when the provider
\* returns no task.
C14_ExistenceNotRevealed ==
    ForeignPlanFetched =>
        result = PlanCheck(None, status_arguments.plan_id[1],
                           status_context.user_id[1])[1]

\* C15: when the provider returns no task for plan_id, the call returns
\* success = FALSE with an error that contains the requested id, and no data.
C15_NotFoundNamesId ==
    NoPlanFetched =>
        /\ pc = "status_done"
        /\ ~result.success
        /\ result.data = None
        /\ status_arguments.plan_id[1] \in ErrorParts(result)

C15_Witness ==
    /\ NoPlanFetched
    /\ pc = "status_done"
    /\ status_context.delegation_service = None
    /\ status_context.task_use_cases = None
    /\ "task-123" \in ErrorParts(result)

\* C16: in listing mode active_count is the number of fetched tasks whose
\* canonical status is planning, ready, executing or checkpoint, and the length
\* of active_tasks; completed_tasks and completed_count are present exactly
\* when include_completed is true, and then completed_tasks holds, in fetch
\* order, the first fetched tasks with status completed, failed or cancelled,
\* at most 5 of them, and completed_count is its length.
C16_ListingCounts ==
    ListingAnswered =>
        LET data == result.data
            active == FetchedWith({"planning", "ready", "executing", "checkpoint"})
            terminal == FetchedWith({"completed", "failed", "cancelled"})
        IN  /\ data["active_count"] = Cardinality(active)
            /\ data["active_count"] = Len(data["active_tasks"])
            /\ \A j \in 1 .. Len(data["active_tasks"]) :
                   data["active_tasks"][j].status
                       \in {"planning", "ready", "executing", "checkpoint"}
            /\ ("completed_tasks" \in DOMAIN data)
                   <=> (status_arguments.include_completed = Some(TRUE))
            /\ ("completed_count" \in DOMAIN data) <=> ("completed_tasks" \in DOMAIN data)
            /\ "completed_tasks" \in DOMAIN data =>
                   /\ Len(data["completed_tasks"]) <= 5
                   /\ Len(data["completed_tasks"]) <= Cardinality(terminal)
                   /\ data["completed_count"] = Len(data["completed_tasks"])
                   /\ \A j \in 1 .. Len(data["completed_tasks"]) :
                          \E i \in terminal :
                              /\ Cardinality({k \in terminal : k <= i}) = j
                              /\ data["completed_tasks"][j].plan_id = Fetched[i].id
                              /\ data["completed_tasks"][j].status
                                     \in {"completed", "failed", "cancelled"}

C16_Witness ==
    /\ ListingAnswered
    /\ result.data["active_count"] = 2
    /\ "completed_tasks" \in DOMAIN result.data
    /\ result.data["completed_count"] = 5
    /\ Cardinality(FetchedWith({"completed", "failed", "cancelled"})) = 6

-----------------------------------------------------------------------------
(* Properties of both tools *)

\* a call of get_task_status is under way or has ended
StatusRunning ==
    pc \in {"status_start", "task_provider", "checkpoint_provider", "get_plan",
            "plan_checkpoints", "list_tasks", "list_checkpoints", "status_done"}

\* a call of create_task is under way or has ended
CreateRunning == ~StatusRunning

\* C17 as stated: a call whose context lacks a required field (user_id or
\* conversation_id for create_task, user_id for get_task_status) returns
\* success = FALSE with an error, and it has built no provider and made no
\* backend call.
C17_MissingContextRejected ==
    /\ (CreateRunning /\ pc # "start"
            /\ (context.user_id = None \/ context.conversation_id = None)) =>
        /\ pc = "done"
        /\ ~result.success
        /\ result.error = Some(<<"Missing user_id or conversation_id in context">>)
        /\ task_use_cases = None
        /\ checkpoint_use_cases = None
        /\ backend = NoCalls
    /\ (StatusRunning /\ pc # "status_start" /\ status_context.user_id = None) =>
        /\ pc = "status_done"
        /\ ~result.success
        /\ result.error = Some(<<"User context not available">>)
        /\ status_locals.factory_calls = 0
        /\ backend = NoCalls

\* a create_task call without goal and without user_id has raised
C17_Witness ==
    /\ pc = "raised"
    /\ context.user_id = None
    /\ context.conversation_id # None
    /\ backend = NoCalls

\* C18 as stated: no call of create_task or get_task_status ends in a raised
\* error: every call that ends returns a result, and a result without success
\* carries an error message.
C18_NeverPropagates ==
    /\ pc # "raised"
    /\ pc \in {"done", "status_done"} =>
        /\ result # NoResult
        /\ ~result.success => result.error # None

\* a create_task call with a complete context has raised
C18_Witness ==
    /\ pc = "raised"
    /\ context.user_id # None
    /\ context.conversation_id # None
    /\ arguments.goal = None

\* C19: a get_task_status call that has passed provider resolution with no
\* delegation service in the context and no task use cases (none in the
\* context, the factory failed) has returned success = FALSE with
\* "Delegation service not available" and made no backend call; a create_task
\* call that has passed provider resolution without task use cases has
\* returned success = FALSE and made no backend call.
C19_NoProviderNoFetch ==
    /\ (StatusRunning /\ pc \notin {"status_start", "task_provider", "checkpoint_provider"}
            /\ status_context.user_id # None
            /\ status_context.delegation_service = None
            /\ status_locals.task_use_cases = None) =>
        /\ pc = "status_done"
        /\ ~result.success
        /\ result.error = Some(<<"Delegation service not available">>)
        /\ result.data = None
        /\ backend = NoCalls
    /\ (CreateRunning /\ pc \notin {"start", "provider", "raised"}
            /\ context.user_id # None /\ context.conversation_id # None
            /\ task_use_cases = None) =>
        /\ pc = "done"
        /\ ~result.success
        /\ result.error = Some(<<"Failed to create task: ", ProviderError>>)
        /\ backend = NoCalls

C19_Witness ==
    /\ pc = "status_done"
    /\ status_locals.factory_calls = 2
    /\ status_locals.checkpoint_use_cases # None
    /\ result.error = Some(<<"Delegation service not available">>)

-----------------------------------------------------------------------------
(* Properties of _resolve_wait_timeout *)

\* x limited to the interval [lo, hi]
Clamp(x, lo, hi) == IF x < lo THEN lo ELSE IF x > hi THEN hi ELSE x

\* the configured maximum and default wait timeouts, and the requested one
MaxWait == settings.INBOX_CREATE_TASK_WAIT_MAX_TIMEOUT_SECONDS

DefaultWait == settings.INBOX_CREATE_TASK_WAIT_TIMEOUT_SECONDS

Requested == arguments.wait_timeout_seconds

\* C20 as stated: for every integer requested and every configured default and
\* maximum the resolved timeout is clamp(requested, 0, MAX_WAIT), for an absent
\* one it is clamp(default, 0, MAX_WAIT), and it lies in [0, MAX_WAIT].
C20_ResolvedIsClamp ==
    (pc = "resolved" /\ Requested.kind \in {"int", "none"}) =>
        /\ Requested.kind = "int" => wait_timeout_seconds = Clamp(Requested.n, 0, MaxWait)
        /\ Requested.kind = "none" => wait_timeout_seconds = Clamp(DefaultWait, 0, MaxWait)
        /\ 0 <= wait_timeout_seconds
        /\ wait_timeout_seconds <= MaxWait

\* C20 as amended: with a configured maximum that is not negative the resolved
\* timeout is clamp(requested, 0, MAX_WAIT) for an integer requested and
\* clamp(default, 0, MAX_WAIT) for an absent one, and lies in [0, MAX_WAIT];
\* with a negative configured maximum it is 0.
C20_ResolvedIsClampOrZero ==
    (pc = "resolved" /\ Requested.kind \in {"int", "none"}) =>
        IF MaxWait >= 0
        THEN /\ Requested.kind = "int" =>
                    wait_timeout_seconds = Clamp(Requested.n, 0, MaxWait)
             /\ Requested.kind = "none" =>
                    wait_timeout_seconds = Clamp(DefaultWait, 0, MaxWait)
             /\ 0 <= wait_timeout_seconds
             /\ wait_timeout_seconds <= MaxWait
        ELSE wait_timeout_seconds = 0

C20_Witness ==
    /\ pc = "resolved"
    /\ Requested.kind = "int"
    /\ Requested.n > MaxWait
    /\ MaxWait > 0
    /\ DefaultWait < 0
    /\ wait_timeout_seconds = MaxWait

\* the timeout resolved when wait_timeout_seconds is missing
ResolvedWhenMissing ==
    ResolveWaitTimeout([arguments EXCEPT !.wait_timeout_seconds =
                                            [kind |-> "none", n |-> 0]], settings)

\* a requested value that is present and is not an integer
NonInteger == Requested.kind \notin {"int", "none"}

Reported ==
    IF pc = "summarized" THEN result.data.progress_percentage
    ELSE result.data.progress

Formatted == pc \in {"summarized", "formatted"}

\* C22 as stated: the progress reported for any snapshot, by the create_task
\* summary and by the get_task_status formatter, is within [0, 100], and is
\* 0.0 for a task with no steps, whether or not the snapshot supplies its own
\* percentage.
C22_ProgressInRange ==
    Formatted =>
        /\ 0 <= Reported
        /\ Reported <= 10000
        /\ last_task[1].steps = <<>> => Reported = 0

\* C22 as amended: for a snapshot that supplies no percentage of its own (or
\* whose computation fails) both formatters report
\* round(steps_completed / steps_total * 100, 2), which is within [0, 100],
\* and 0.0 for a task with no steps; for a snapshot that supplies one they
\* report that value as it is.
C22_ProgressOwnOrRatio ==
    Formatted =>
        LET own == last_task[1].own_pct
            total == result.data.steps_total
            completed == result.data.steps_completed
            off == Reported * total - completed * 10000
        IN  IF own # None THEN Reported = own[1]
            ELSE /\ 0 <= Reported
                 /\ Reported <= 10000
                 /\ total = 0 => Reported = 0
                 /\ total > 0 => 2 * off <= total /\ -2 * off <= total

\* two of three steps completed and no own percentage: 66.67 is reported
C22_Witness ==
    /\ pc = "summarized"
    /\ last_task[1].own_pct = None
    /\ result.data.steps_total = 3
    /\ result.data.steps_completed = 2
    /\ Reported = 6667

\* get_task_status has answered with success and a list of pending checkpoints
CheckpointsListed ==
    /\ pc = "status_done"
    /\ result.success
    /\ "pending_checkpoints" \in DOMAIN result.data

\* create_task has answered a checkpoint wait with a serialized checkpoint
CheckpointSerialized ==
    /\ CheckpointAnswered
    /\ result.success
    /\ result.data["checkpoint"] # None

\* the source checkpoint's type is absent or falsy
Untyped(checkpoint) == checkpoint.checkpoint_type.value \in {None, Some("")}

\* C23: every serialized checkpoint, in the create_task checkpoint response
\* and in the get_task_status answers, carries a non-empty checkpoint_type,
\* which is "approval" whenever the source checkpoint's type is absent or
\* falsy.
C23_CheckpointTypeCarried ==
    /\ CheckpointSerialized =>
           /\ result.data["checkpoint"][1].checkpoint_type # ""
           /\ Untyped(pending[1].list[1]) =>
                  result.data["checkpoint"][1].checkpoint_type = "approval"
    /\ CheckpointsListed =>
           \A i \in 1 .. Len(result.data["pending_checkpoints"]) :
               /\ "checkpoint_type" \in DOMAIN result.data["pending_checkpoints"][i]
               /\ result.data["pending_checkpoints"][i].checkpoint_type # ""

\* get_task_status has attached a formatted checkpoint to its answer
C23_Witness ==
    /\ CheckpointsListed
    /\ Len(result.data["pending_checkpoints"]) > 0
    /\ result.data["pending_checkpoints"][1].step_id = "step-untyped"

\* the pending checkpoints get_task_status has read, none without a provider
FetchedCheckpoints ==
    IF status_locals.checkpoints = None THEN <<>>
    ELSE status_locals.checkpoints[1].list

\* the task a source checkpoint refers to: its plan_id, or its task_id when
\* it has no plan_id field
TaskReference(checkpoint) ==
    IF "plan_id" \in DOMAIN checkpoint THEN checkpoint.plan_id ELSE checkpoint.task_id

\* C30: serialization accepts both schema variants: the task reference of the
\* serialized checkpoint is the checkpoint's plan_id, or its task_id when it
\* has no plan_id field, and serializing a checkpoint that has only task_id
\* succeeds, in the create_task checkpoint response and in get_task_status.
C30_BothSchemasSerialized ==
    /\ (CheckpointAnswered /\ pending # None /\ pending[1].kind = "return"
            /\ pending[1].list # <<>>) =>
           /\ result.success
           /\ result.data["checkpoint"] # None
           /\ result.data["checkpoint"][1].task_id = TaskReference(pending[1].list[1])
    /\ (CheckpointsListed /\ ~SingleTaskMode(status_arguments)) =>
           /\ Len(result.data["pending_checkpoints"])
                  = Len(FetchedCheckpoints)
           /\ \A i \in 1 .. Len(result.data["pending_checkpoints"]) :
                  result.data["pending_checkpoints"][i].plan_id
                      = Some(TaskReference(FetchedCheckpoints[i]))
    /\ (CheckpointsListed /\ SingleTaskMode(status_arguments)) =>
           \A i \in 1 .. Len(result.data["pending_checkpoints"]) :
               \E j \in 1 .. Len(FetchedCheckpoints) :
                   LET source == FetchedCheckpoints[j]
                   IN  /\ result.data["pending_checkpoints"][i].step_id = source.step_id
                       /\ result.data["pending_checkpoints"][i].plan_id
                              = Some(TaskReference(source))

\* the first pending checkpoint of a checkpoint wait has only a task_id
C30_Witness ==
    /\ CheckpointAnswered
    /\ pending # None
    /\ pending[1].kind = "return"
    /\ pending[1].list # <<>>
    /\ "plan_id" \notin DOMAIN pending[1].list[1]

\* the reads get_task_status has made of tasks and of checkpoints
TaskReads == CallsOf("get_plan") \cup CallsOf("get_task")
             \cup CallsOf("get_user_plans") \cup CallsOf("list_tasks")

CheckpointReads == CallsOf("get_pending_checkpoints") \cup CallsOf("list_pending")
                   \cup CallsOf("list_pending_for_task")

\* C24: when the context carries a delegation service every task and
\* checkpoint read of get_task_status goes through it and no split-provider
\* factory is invoked; when it carries task_use_cases (checkpoint_use_cases)
\* instead, the task (checkpoint) reads go through those and the factory of
\* that kind is not invoked.
C24_ContextProvidersUsed ==
    StatusRunning =>
        IF status_context.delegation_service # None
        THEN /\ status_locals.factories = {}
             /\ \A i \in TaskReads \cup CheckpointReads :
                    /\ backend.calls[i].via = status_context.delegation_service[1]
                    /\ backend.calls[i].op \in
                           {"get_plan", "get_user_plans", "get_pending_checkpoints"}
        ELSE /\ status_context.task_use_cases # None =>
                    /\ "task" \notin status_locals.factories
                    /\ \A i \in TaskReads :
                           /\ backend.calls[i].via = status_context.task_use_cases[1]
                           /\ backend.calls[i].op \in {"get_task", "list_tasks"}
             /\ status_context.checkpoint_use_cases # None =>
                    /\ "checkpoint" \notin status_locals.factories
                    /\ \A i \in CheckpointReads :
                           /\ backend.calls[i].via = status_context.checkpoint_use_cases[1]
                           /\ backend.calls[i].op \in
                                  {"list_pending", "list_pending_for_task"}

\* a context with the task use cases only: the task was read through them and
\* the checkpoints through the provider the checkpoint factory built
C24_Witness ==
    /\ pc = "status_done"
    /\ status_context.delegation_service = None
    /\ status_context.task_use_cases # None
    /\ status_context.checkpoint_use_cases = None
    /\ status_locals.factories = {"checkpoint"}
    /\ \E i \in TaskReads : backend.calls[i].via = "ContextTaskUseCases"
    /\ \E i \in CheckpointReads : backend.calls[i].via = "CheckpointUseCases"

\* the single-task mode has answered with success, checkpoints included
SingleTaskAnswered ==
    /\ pc = "status_done"
    /\ result.success
    /\ SingleTaskMode(status_arguments)
    /\ IncludeCheckpoints(status_arguments)

\* the fetched pending checkpoints that reference the requested id
Referencing ==
    {j \in 1 .. Len(FetchedCheckpoints) :
        TaskReference(FetchedCheckpoints[j]) = status_arguments.plan_id[1]}

\* C26: in single-task mode with include_checkpoints true the key
\* pending_checkpoints is present exactly when at least one fetched pending
\* checkpoint references the requested id (by plan_id, or by task_id when it
\* has no plan_id), and every attached checkpoint references the requested id.
C26_OwnCheckpointsAttached ==
    SingleTaskAnswered =>
        /\ "pending_checkpoints" \in DOMAIN result.data <=> Referencing # {}
        /\ "pending_checkpoints" \in DOMAIN result.data =>
               /\ Len(result.data["pending_checkpoints"]) = Cardinality(Referencing)
               /\ \A i \in 1 .. Len(result.data["pending_checkpoints"]) :
                      result.data["pending_checkpoints"][i].plan_id
                          = status_arguments.plan_id

\* two checkpoints were fetched, one of another task: one is attached
C26_Witness ==
    /\ SingleTaskAnswered
    /\ Len(FetchedCheckpoints) = 2
    /\ Cardinality(Referencing) = 1
    /\ "pending_checkpoints" \in DOMAIN result.data
    /\ Len(result.data["pending_checkpoints"]) = 1

\* the read operations of the two provider shapes
ReadOperations ==
    {"get_plan", "get_task", "get_user_plans", "list_tasks",
     "get_pending_checkpoints", "list_pending", "list_pending_for_task"}

\* C27: get_task_status is read-only: on every path, in both modes and with
\* either provider shape, it invokes only read operations of the backend and
\* never create_task or link_conversation.
C27_ReadOnly ==
    StatusRunning =>
        \A i \in 1 .. Len(backend.calls) :
            /\ backend.calls[i].op \in ReadOperations
            /\ backend.calls[i].op \notin {"create_task", "link_conversation"}

\* a listing has read the tasks and the checkpoints through the delegation
\* service
C27_Witness ==
    /\ pc = "status_done"
    /\ result.success
    /\ Len(backend.calls) = 2
    /\ backend.calls[1].op = "get_user_plans"
    /\ backend.calls[2].op = "get_pending_checkpoints"

\* the configured poll interval floored to 0.2 s
FlooredInterval ==
    IF settings.INBOX_CREATE_TASK_WAIT_POLL_INTERVAL_SECONDS < PollFloor
    THEN PollFloor
    ELSE settings.INBOX_CREATE_TASK_WAIT_POLL_INTERVAL_SECONDS

\* the fetches one wait can make with sleeps of a floored interval
FetchBound == TimeoutTicks \div PollFloor + 2

BuiltFor(tool, kind) ==
    {i \in Built : callers.log[i].tool = tool /\ callers.log[i].kind = kind}

\* the provider of the first successful construction of a module's getter
FirstProvider(tool, kind) ==
    callers.log[CHOOSE i \in BuiltFor(tool, kind) :
                    \A j \in BuiltFor(tool, kind) : i <= j].provider

\* C25: the first successful construction wins: once the singleton of a
\* provider kind has been set it is never replaced by a provider built by a
\* later-finishing construction, and every call that starts afterwards gets
\* that same provider.
C25_FirstConstructionWins ==
    [][/\ task_use_cases # None => task_use_cases' = task_use_cases
       /\ checkpoint_use_cases # None => checkpoint_use_cases' = checkpoint_use_cases
       /\ status_globals.task_use_cases # None =>
              status_globals'.task_use_cases = status_globals.task_use_cases
       /\ status_globals.checkpoint_use_cases # None =>
              status_globals'.checkpoint_use_cases = status_globals.checkpoint_use_cases
       /\ \A c \in DOMAIN callers.calls :
              (callers.calls[c].pc = "idle" /\ callers'.calls[c].pc = "returned") =>
                  callers'.calls[c].got
                      = FirstProvider(callers'.calls[c].tool, callers'.calls[c].kind)
      ]_vars

\* two first-callers of create_task's _get_task_use_cases() have both built a
\* provider: the first one holds provider 1, the singleton is provider 2
C25_Witness ==
    /\ pc = "memo"
    /\ task_use_cases = Some(2)
    /\ \E c \in DOMAIN callers.calls :
           /\ callers.calls[c].tool = "create_task"
           /\ callers.calls[c].kind = "task"
           /\ callers.calls[c].got = Some(1)

\* the events of the log about the factory of a kind, in either module
EventsOf(kind, ev) ==
    {i \in 1 .. Len(callers.log) :
        callers.log[i].kind = kind /\ callers.log[i].ev = ev}

\* the latest event of a module's getter for a kind is a failed construction
LastRaised(tool, kind) ==
    \E i \in EventsOf(kind, "raised") :
        /\ callers.log[i].tool = tool
        /\ \A j \in 1 .. Len(callers.log) :
               (callers.log[j].tool = tool /\ callers.log[j].kind = kind) => j <= i

\* C28: the split providers are memoized process-wide per kind: in a sequence
\* of non-overlapping create_task and get_task_status calls that need a
\* provider of a kind the factory of that kind succeeds at most once and is
\* not invoked again after it has succeeded; after a failed construction the
\* singleton stays unset.
C28_MemoizedPerKind ==
    (pc = "memo" /\ ~callers.overlapped) =>
        \A kind \in Kinds :
            /\ Cardinality(EventsOf(kind, "built")) <= 1
            /\ \A i \in EventsOf(kind, "built"), j \in EventsOf(kind, "invoke") : j < i
            /\ \A tool \in Tools : LastRaised(tool, kind) => Cache(tool, kind) = None

\* create_task and then get_task_status have each built the task use cases
C28_Witness ==
    /\ pc = "memo"
    /\ ~callers.overlapped
    /\ task_use_cases = Some(1)
    /\ status_globals.task_use_cases = Some(2)

\* C28 for one module: in non-overlapping calls of one tool the factory of a
\* kind succeeds at most once and is not invoked again after it has succeeded.
MemoizedPerModule ==
    (pc = "memo" /\ ~callers.overlapped) =>
        \A kind \in Kinds, tool \in Tools :
            /\ Cardinality(BuiltFor(tool, kind)) <= 1
            /\ \A i \in BuiltFor(tool, kind), j \in EventsOf(kind, "invoke") :
                   callers.log[j].tool = tool => j < i
            /\ LastRaised(tool, kind) => Cache(tool, kind) = None

\* checkpoints were requested, the context carries no delegation service and
\* the checkpoint factory was invoked and raised, while there is a task
\* provider
CheckpointProviderFailed ==
    /\ IncludeCheckpoints(status_arguments)
    /\ status_context.delegation_service = None
    /\ "checkpoint" \in status_locals.factories
    /\ status_locals.checkpoint_use_cases = None
    /\ status_locals.task_use_cases # None

\* the task read of the call returned: the tasks of the listing, or the
\* requested task, owned by the user
TaskReadSucceeded ==
    IF SingleTaskMode(status_arguments)
    THEN PlanFetched /\ ~NoPlanFetched /\ ~ForeignPlanFetched
    ELSE status_locals.active_plans # None /\ status_locals.active_plans[1].kind = "return"

\* C31: if checkpoints are requested, no delegation service is available and
\* the checkpoint provider cannot be constructed, get_task_status still
\* succeeds with the task provider alone: the listing has pending_checkpoints
\* empty and checkpoint_count 0, the single-task answer has no
\* pending_checkpoints key; the task is read and no checkpoint is.
C31_TaskProviderAlone ==
    (pc = "status_done" /\ CheckpointProviderFailed) =>
        /\ TaskReads # {}
        /\ CheckpointReads = {}
        /\ TaskReadSucceeded =>
               /\ result.success
               /\ IF SingleTaskMode(status_arguments)
                  THEN /\ "pending_checkpoints" \notin DOMAIN result.data
                       /\ result.data.plan_id = status_arguments.plan_id[1]
                  ELSE /\ result.data["pending_checkpoints"] = <<>>
                       /\ result.data["checkpoint_count"] = 0
                       /\ result.data["active_count"]
                              = Len(result.data["active_tasks"])

\* a listing answered after the checkpoint factory raised
C31_Witness ==
    /\ pc = "status_done"
    /\ CheckpointProviderFailed
    /\ ~SingleTaskMode(status_arguments)
    /\ result.success
    /\ result.data["checkpoint_count"] = 0
    /\ result.data["active_count"] > 0

\* C33: the wait returns timed_out = FALSE if and only if it returns a
\* snapshot whose canonical status is completed, failed, cancelled or
\* checkpoint; so the status of every successful create_task response is one
\* of planning, running, checkpoint, completed, failed, cancelled, and the
\* branch that passes any other observed status through is never reached.
C33_NotTimedOutIffTerminal ==
    /\ Returned =>
           (~wait_result[1].timed_out <=>
               /\ wait_result[1].task # None
               /\ StatusValue(wait_result[1].task[1].status)
                      \in {"completed", "failed", "cancelled", "checkpoint"})
    /\ Succeeded =>
           /\ result.data["status"] \in {"planning", "running", "checkpoint",
                                         "completed", "failed", "cancelled"}
           /\ result.message # Some(<<"Task created and started.">>)

\* a wait that timed out with a snapshot whose status is not terminal
C33_Witness ==
    /\ Succeeded
    /\ Returned
    /\ wait_result[1].timed_out
    /\ wait_result[1].task # None
    /\ wait_result[1].status = "executing"
    /\ result.data["status"] = "running"

\* the latest get_task call returned a snapshot with a terminal or checkpoint
\* status
TerminalFetch ==
    /\ last_fetch # None
    /\ last_fetch[1].kind = "return"
    /\ last_fetch[1].task # None
    /\ StatusValue(last_fetch[1].task[1].status)
           \in {"completed", "failed", "cancelled", "checkpoint"}

\* C34: a terminal or checkpoint observation takes priority over the
\* deadline: every wait performs at least one fetch, and a fetch that returns
\* a status in {completed, failed, cancelled, checkpoint} ends the wait with
\* that snapshot and timed_out = FALSE even if the deadline has passed when it
\* returns, a wait with timeout 0 included.
C34_TerminalBeforeDeadline ==
    /\ Returned => backend.get_task >= 1
    /\ TerminalFetch =>
           /\ Returned
           /\ ~wait_result[1].timed_out
           /\ wait_result[1].task = last_fetch[1].task
           /\ wait_result[1].status = StatusValue(last_fetch[1].task[1].status)

\* a wait with timeout 0 whose only fetch returned a completed task
C34_Witness ==
    /\ TerminalFetch
    /\ TimeoutTicks = 0
    /\ last_fetch[1].at >= deadline
    /\ backend.get_task = 1
    /\ Returned
    /\ ~wait_result[1].timed_out
    /\ wait_result[1].status = "completed"

\* C35: create_task never modifies the arguments object supplied by its
\* caller: through every execution, one that fails with the missing-context
\* error while the context carries file_references included, the constraints
\* object inside the caller's arguments keeps its content.
C35_ArgumentsUnchanged == [][CreateRunning => arguments' = arguments]_vars

\* the call failed with the missing-context error and the caller's constraints
\* hold the file references of the context
C35_Witness ==
    /\ pc = "done"
    /\ result = MissingContext
    /\ context.file_references # None
    /\ arguments.constraints = Some({"budget", "file_references"})

\* the backend created the task and link_conversation then raised
LinkFailedAfterCreate ==
    /\ \E i \in CallsOf("create_task") : backend.calls[i].ok
    /\ \E i \in CallsOf("link_conversation") : ~backend.calls[i].ok

\* C36: if link_conversation fails after the backend's create_task succeeded,
\* create_task returns success = FALSE, polls no get_task and issues no
\* compensating call: the task stays created and auto-started although the
\* caller is told the creation failed.
C36_LinkFailureLeavesTask ==
    LinkFailedAfterCreate =>
        /\ pc = "done"
        /\ ~result.success
        /\ result.error = Some(<<"Failed to create task: ", BackendError>>)
        /\ result.data = None
        /\ backend.get_task = 0
        /\ Len(backend.calls) = 2
        /\ backend.calls[1].op = "create_task"
        /\ backend.calls[1].ok
        /\ backend.calls[1].auto_start
        /\ backend.calls[2].op = "link_conversation"

\* a call that asked to wait has ended on the failed link
C36_Witness ==
    /\ LinkFailedAfterCreate
    /\ pc = "done"
    /\ WaitForCompletion(arguments)
    /\ wait_timeout_seconds > 0
    /\ ~result.success

\* C37: in single-task mode the existence and ownership checks precede every
\* checkpoint read: when the task is not found or is owned by another user no
\* pending-checkpoint fetch is issued to any provider, and a checkpoint read
\* that is issued follows the read of a task that exists and is the user's.
C37_ChecksBeforeCheckpoints ==
    (StatusRunning /\ SingleTaskMode(status_arguments)) =>
        /\ (NoPlanFetched \/ ForeignPlanFetched) =>
               /\ CheckpointReads = {}
               /\ pc = "status_done"
               /\ ~result.success
        /\ CheckpointReads # {} =>
               /\ PlanFetched
               /\ status_locals.plan[1].plan # None
               /\ status_locals.plan[1].plan[1].user_id = status_context.user_id[1]
               /\ \A i \in CheckpointReads : \E j \in TaskReads : j < i

\* the requested task was not found and the call has ended, checkpoints
\* having been asked for through a delegation service
C37_Witness ==
    /\ pc = "status_done"
    /\ SingleTaskMode(status_arguments)
    /\ IncludeCheckpoints(status_arguments)
    /\ status_context.delegation_service # None
    /\ NoPlanFetched
    /\ CheckpointReads = {}

\* both calls have answered: the first through the delegation service, the
\* second through the use cases
BothShapesAnswered == pc = "status_done" /\ shapes.run = 2

C38_ListingWitness ==
    /\ BothShapesAnswered
    /\ ~SingleTaskMode(status_arguments)
    /\ result.success
    /\ status_locals.checkpoints # None
    /\ status_locals.checkpoints[1].list # <<>>

\* the last get_task answer for the task of call w is a snapshot with a
\* terminal or checkpoint status
OwnTerminalFetch(w) ==
    /\ waits[w].last_fetch # None
    /\ waits[w].last_fetch[1].task # None
    /\ StatusValue(waits[w].last_fetch[1].task[1].status) \in terminal_statuses

\* C32: when two create_task calls wait concurrently on different task ids,
\* under any interleaving of their fetches and sleeps, what each wait returns
\* is determined by the get_task answers for its own task id and by its own
\* deadline: after a terminal own fetch that snapshot, its status and
\* timed_out false; otherwise, the own deadline reached at the last own fetch,
\* the latest snapshot fetched for its own id (None if there is none), the
\* status of that snapshot ("planning" if there is none) and timed_out true.
C32_ConcurrentWaitsIndependent ==
    pc = "waits" =>
        \A w \in Waiters :
            waits[w].returned # None =>
                /\ waits[w].last_fetch # None
                /\ IF OwnTerminalFetch(w)
                   THEN waits[w].returned[1] =
                            [task |-> waits[w].last_fetch[1].task,
                             status |-> StatusValue(waits[w].last_fetch[1].task[1].status),
                             timed_out |-> FALSE]
                   ELSE /\ waits[w].last_fetch[1].at >= waits[w].deadline
                        /\ waits[w].returned[1] =
                               [task |-> waits[w].delivered,
                                status |-> IF waits[w].delivered = None THEN "planning"
                                           ELSE StatusValue(waits[w].delivered[1].status),
                                timed_out |-> TRUE]
                /\ waits[w].returned[1].task # None =>
                       waits[w].returned[1].task[1].id = waits[w].task_id

\* both calls have returned, the first after a terminal snapshot of its task,
\* the second on its deadline with nothing fetched, although the first had
\* fetched a snapshot before the second made its last fetch
C32_Witness ==
    /\ pc = "waits"
    /\ waits[1].returned # None
    /\ waits[2].returned # None
    /\ ~waits[1].returned[1].timed_out
    /\ waits[2].returned[1].timed_out
    /\ waits[2].returned[1].task = None
    /\ waits[1].last_fetch[1].at < waits[2].last_fetch[1].at
    /\ waits[1].deadline # waits[2].deadline

====
